---- MODULE Spec2Model ----
(***************************************************************************)
(* Session memory, session persistence, the get_context tool path and the  *)
(* world-model auditor of MCP-HUB, modelled from the Python sources.       *)
(*                                                                         *)
(* Python values are encoded uniformly so that they can be compared:       *)
(*   - a dict handed in as `metadata` is a record [none, has, entities]:   *)
(*     none = the argument is None, has = the key 'entities' is present;   *)
(*   - the Python value None used as a session id is the string PyNone,    *)
(*     which no client can send as a string; Str() is str()/f-string       *)
(*     formatting, which maps it to "None";                                *)
(*   - datetime.now() is the logical clock `now`.                          *)
(***************************************************************************)
EXTENDS Integers, Sequences, FiniteSets, TLC

VARIABLES
    sess,       \* SpecPolicy: one policy object (TrimmingSession / SummarizingSession)
    hist,       \* SpecPolicy: history of the turns built by add_turn on sess, in call order
    now,        \* logical wall clock read by datetime.now()
    active,     \* SessionManager.active_sessions: session id -> policy object
    logs,       \* <storage_dir>/<id>.jsonl files: file stem -> sequence of JSON lines
    meta,       \* <storage_dir>/<id>.meta.json files: file stem -> metadata dict
    auto_save,  \* SessionManager.auto_save
    calls,      \* history: per file stem, the turns handed to add_turn_to_session calls that returned True
    ret,        \* the last operation: its name, the session id it was given, what it returned
    pc,         \* SpecPar: where each worker thread stands inside add_turn_to_session
    loc,        \* SpecPar: the locals of each worker thread (its turn dict, the metadata it read)
    cur_sid,    \* MCPServerV6._current_session_id (PyNone while the attribute is unset)
    cur_path,   \* MCPServerV6._current_project_path ("" while the attribute is unset)
    vector_engine, \* MCPServerV6.vector_engine: "ok", or "none" after a failed initialisation
    chunks,     \* MCPServerV6.storage.chunks: the chunks of the loaded snapshot
    code_index, \* CodeIndexer.functions: sequence of [key, name]
    tracker_index, \* EntityTracker.code_index: the copy of the index the tracker was given
    mentions,   \* EntityTracker.mentions, flattened in recording order
    resp,       \* what the last tools/call produced
    call,       \* the last tools/call: tool name and arguments
    heap,       \* SpecJepa: the list objects self.facts has been bound to
    facts_ref,  \* SpecJepa: the list object FactualAuditJEPA.facts is bound to now
    jpc,        \* SpecJepa: position of the writer (update_world_model) and the reader (audit_proposal)
    jloc,       \* SpecJepa: locals of the writer and the reader
    arg,        \* pure operations: the inputs of the call under consideration
    result,     \* pure operations: what the call returned (<< >> before the call)
    memfs       \* SpecMemory: the files and directories MemoryHandler works on

vars == <<sess, hist, now, active, logs, meta, auto_save, calls, ret, pc, loc,
          cur_sid, cur_path, vector_engine, chunks, code_index, tracker_index, mentions,
          resp, call, heap, facts_ref, jpc, jloc, arg, result, memfs>>

policyVars == <<sess, hist>>
mgrVars == <<active, logs, meta, auto_save, calls, ret>>
parVars == <<pc, loc>>
srvVars == <<cur_sid, cur_path, vector_engine, chunks, code_index, tracker_index, mentions,
            resp, call>>
jepaVars == <<heap, facts_ref, jpc, jloc>>
pureVars == <<arg, result, memfs>>

\* the variables a specification leaves alone
offPolicy == <<mgrVars, parVars, srvVars, jepaVars, pureVars>>
offMgr == <<policyVars, parVars, srvVars, jepaVars, pureVars>>
offPar == <<policyVars, auto_save, calls, ret, srvVars, jepaVars, pureVars>>
offSrv == <<policyVars, parVars, jepaVars, auto_save, calls, ret, pureVars>>
offJepa == <<policyVars, mgrVars, parVars, srvVars, now, pureVars>>

-----------------------------------------------------------------------------
(* Bounds of the model *)

MaxAdds == 4
MaxTurnsBound == 2
MaxKeep == 2
MaxLimit == 2

(* Program constants *)

DefaultMaxTurns == 8
DefaultKeepLastN == 3
DefaultContextLimit == 10

-----------------------------------------------------------------------------
(* Input alphabets *)

Ret(op, sid, val) == [op |-> op, sid |-> sid, val |-> val]

PyNone == "<None>"

\* the parts of the program a specification does not run
ParIdle == pc = << >> /\ loc = << >>

SrvIdle ==
    /\ cur_sid = PyNone
    /\ cur_path = ""
    /\ vector_engine = "ok"
    /\ chunks = << >>
    /\ code_index = << >>
    /\ tracker_index = << >>
    /\ mentions = << >>
    /\ resp = << >>
    /\ call = << >>

JepaIdle == heap = << >> /\ facts_ref = 0 /\ jpc = << >> /\ jloc = << >>

PureIdle == arg = << >> /\ result = << >> /\ memfs = << >>

Queries == {"q1", "q2"}
Responses == {"r1"}
Entities == {"e1", "e2"}

MetaNone == [none |-> TRUE, has |-> FALSE, entities |-> << >>]
MetaEmpty == [none |-> FALSE, has |-> FALSE, entities |-> << >>]
MetaEnt(es) == [none |-> FALSE, has |-> TRUE, entities |-> es]

Metas == {MetaNone, MetaEnt(<<"e1">>), MetaEnt(<<"e2", "e1">>)}

-----------------------------------------------------------------------------
(* Python helpers *)

Min(a, b) == IF a <= b THEN a ELSE b
Max(a, b) == IF a >= b THEN a ELSE b

\* s[-k:] for k >= 0 (Python: -0 is 0, so s[-0:] is the whole list)
SliceLast(s, k) ==
    IF k = 0 THEN s
    ELSE SubSeq(s, Max(1, Len(s) - k + 1), Len(s))

\* s[:-k] for k >= 0 (Python: s[:-0] is s[:0], the empty list)
SliceButLast(s, k) ==
    IF k = 0 THEN << >>
    ELSE SubSeq(s, 1, Len(s) - k)

\* the last Min(k, Len(s)) elements of s (specification-side notion)
LastN(s, k) == SubSeq(s, Len(s) - Min(k, Len(s)) + 1, Len(s))

SeqRange(s) == {s[i] : i \in DOMAIN s}

\* `metadata or {}`
OrEmptyDict(md) == IF md.none \/ ~md.has THEN MetaEmpty ELSE md

\* for entity in metadata['entities']: if entity not in L: L.append(entity)
RECURSIVE AppendNew(_, _)
AppendNew(L, es) ==
    IF es = << >> THEN L
    ELSE AppendNew(IF Head(es) \in SeqRange(L) THEN L ELSE Append(L, Head(es)), Tail(es))

ExtractEntities(L, md) == IF ~md.none /\ md.has THEN AppendNew(L, md.entities) ELSE L

-----------------------------------------------------------------------------
(* Session policies (core/memory) *)

\* get_summary lists the first ten entities
SummaryEntities == 10

NewTrimming(sid, mt, ty, t) ==
    [strategy |-> "trimming", session_id |-> sid, session_type |-> ty,
     max_turns |-> mt, keep_last_n_turns |-> 0, context_limit |-> 0,
     turns |-> << >>, summary |-> << >>, summary_turn_count |-> 0,
     last_summarized_at |-> -1, created_at |-> t, entities_mentioned |-> << >>]

NewSummarizing(sid, keep, limit, ty, t) ==
    [strategy |-> "summarizing", session_id |-> sid, session_type |-> ty,
     max_turns |-> 0, keep_last_n_turns |-> keep, context_limit |-> limit,
     turns |-> << >>, summary |-> << >>, summary_turn_count |-> 0,
     last_summarized_at |-> -1, created_at |-> t, entities_mentioned |-> << >>]

\* the turn dict built at the top of add_turn
MkTurn(s, q, r, md, t) ==
    [turn_id |-> IF s.strategy = "trimming"
                 THEN Len(s.turns) + 1
                 ELSE s.summary_turn_count + Len(s.turns) + 1,
     timestamp |-> t, query |-> q, response |-> r, metadata |-> OrEmptyDict(md)]

\* self.turns.append(turn) and the entity extraction
AppendTurn(s, turn, md) ==
    [s EXCEPT !.turns = Append(@, turn),
              !.entities_mentioned = ExtractEntities(@, md)]

\* the digest produced by _default_summarizer: count, id range, time range
DefaultSummarizer(ts) ==
    IF ts = << >> THEN << >>
    ELSE << [count |-> Len(ts), first_id |-> ts[1].turn_id, last_id |-> ts[Len(ts)].turn_id,
             first_ts |-> ts[1].timestamp, last_ts |-> ts[Len(ts)].timestamp] >>

\* variant that keeps one turn more than it removes from the verbatim list
TriggerSummarizationKeepsExtra(s, t) ==
    IF Len(s.turns) <= s.keep_last_n_turns THEN s
    ELSE LET toSum == SliceButLast(s.turns, s.keep_last_n_turns)
             toKeep == SliceLast(s.turns, s.keep_last_n_turns + 1)
         IN [s EXCEPT !.summary = @ \o DefaultSummarizer(toSum),
                      !.summary_turn_count = @ + Len(toSum),
                      !.turns = toKeep,
                      !.last_summarized_at = t]

\* _trigger_summarization: recent[:-keep] goes to the summary, recent[-keep:] stays
TriggerSummarization(s, t) ==
    IF Len(s.turns) <= s.keep_last_n_turns THEN s
    ELSE LET toSum == SliceButLast(s.turns, s.keep_last_n_turns)
             toKeep == SliceLast(s.turns, s.keep_last_n_turns)
         IN [s EXCEPT !.summary = @ \o DefaultSummarizer(toSum),
                      !.summary_turn_count = @ + Len(toSum),
                      !.turns = toKeep,
                      !.last_summarized_at = t]

\* the tail of add_turn: pop(0) for the sliding policy, summarisation otherwise
TrimDropsNewest(s, t) ==
    IF s.strategy = "trimming"
    THEN IF Len(s.turns) > s.max_turns
         THEN [s EXCEPT !.turns = SubSeq(@, 1, Len(@) - 1)] ELSE s
    ELSE IF Len(s.turns) > s.context_limit THEN TriggerSummarization(s, t) ELSE s

Trim(s, t) ==
    IF s.strategy = "trimming"
    THEN IF Len(s.turns) > s.max_turns THEN [s EXCEPT !.turns = Tail(@)] ELSE s
    ELSE IF Len(s.turns) > s.context_limit THEN TriggerSummarization(s, t) ELSE s

SessionAddTurn(s, q, r, md, t) == Trim(AppendTurn(s, MkTurn(s, q, r, md, t), md), t)

\* data.get(key, default) on a serialised session
DictGet(d, k, default) == IF k \in DOMAIN d THEN d[k] ELSE default

\* TrimmingSession.to_dict
TrimmingToDict(s) ==
    [session_id |-> s.session_id, session_type |-> s.session_type,
     max_turns |-> s.max_turns, created_at |-> s.created_at,
     turn_count |-> Len(s.turns), entities_mentioned |-> s.entities_mentioned,
     turns |-> s.turns]

\* TrimmingSession.from_dict: a new instance built at time t, then overwritten
TrimmingFromDict(d, t) ==
    LET fresh == NewTrimming(d.session_id, DictGet(d, "max_turns", DefaultMaxTurns),
                             DictGet(d, "session_type", "general"), t)
    IN [fresh EXCEPT !.created_at = DictGet(d, "created_at", fresh.created_at),
                     !.entities_mentioned = DictGet(d, "entities_mentioned", << >>),
                     !.turns = DictGet(d, "turns", << >>)]

\* s[:k]
SliceFirst(L, k) == SubSeq(L, 1, Min(Len(L), k))

\* TrimmingSession.get_summary
TrimmingGetSummary(s) ==
    [session_id |-> s.session_id, session_type |-> s.session_type,
     created_at |-> s.created_at, turn_count |-> Len(s.turns),
     max_turns |-> s.max_turns,
     entities_mentioned_count |-> Len(s.entities_mentioned),
     entities |-> SliceFirst(s.entities_mentioned, SummaryEntities),
     oldest_turn |-> IF s.turns # << >> THEN s.turns[1].timestamp ELSE -1,
     newest_turn |-> IF s.turns # << >> THEN s.turns[Len(s.turns)].timestamp ELSE -1]

\* SummarizingSession.to_dict
SummarizingToDict(s) ==
    [session_id |-> s.session_id, session_type |-> s.session_type,
     keep_last_n_turns |-> s.keep_last_n_turns, context_limit |-> s.context_limit,
     created_at |-> s.created_at, last_summarized_at |-> s.last_summarized_at,
     summary |-> s.summary, summary_turn_count |-> s.summary_turn_count,
     recent_turns |-> s.turns, entities_mentioned |-> s.entities_mentioned]

\* variant that reads the verbatim turns under the sliding policy's key
SummarizingFromDictReadsTurns(d, t) ==
    LET fresh == NewSummarizing(d.session_id,
                                DictGet(d, "keep_last_n_turns", DefaultKeepLastN),
                                DictGet(d, "context_limit", DefaultContextLimit),
                                DictGet(d, "session_type", "general"), t)
    IN [fresh EXCEPT !.created_at = DictGet(d, "created_at", fresh.created_at),
                     !.last_summarized_at = DictGet(d, "last_summarized_at", -1),
                     !.summary = DictGet(d, "summary", << >>),
                     !.summary_turn_count = DictGet(d, "summary_turn_count", 0),
                     !.turns = DictGet(d, "turns", << >>),
                     !.entities_mentioned = DictGet(d, "entities_mentioned", << >>)]

\* SummarizingSession.from_dict
SummarizingFromDict(d, t) ==
    LET fresh == NewSummarizing(d.session_id,
                                DictGet(d, "keep_last_n_turns", DefaultKeepLastN),
                                DictGet(d, "context_limit", DefaultContextLimit),
                                DictGet(d, "session_type", "general"), t)
    IN [fresh EXCEPT !.created_at = DictGet(d, "created_at", fresh.created_at),
                     !.last_summarized_at = DictGet(d, "last_summarized_at", -1),
                     !.summary = DictGet(d, "summary", << >>),
                     !.summary_turn_count = DictGet(d, "summary_turn_count", 0),
                     !.turns = DictGet(d, "recent_turns", << >>),
                     !.entities_mentioned = DictGet(d, "entities_mentioned", << >>)]

\* to_dict followed by from_dict of the same class, at time t
RoundTrip(s, t) ==
    IF s.strategy = "trimming" THEN TrimmingFromDict(TrimmingToDict(s), t)
    ELSE SummarizingFromDict(SummarizingToDict(s), t)

-----------------------------------------------------------------------------
(* SpecPolicy: one policy object driven by add_turn / force_summarize *)

PolicyInit ==
    /\ sess \in {NewTrimming("s1", mt, "general", 0) : mt \in 1..MaxTurnsBound}
            \cup {NewSummarizing("s1", k, l, "general", 0) : k \in 0..MaxKeep, l \in 0..MaxLimit}
    /\ hist = << >>
    /\ now = 1
    /\ active = << >>
    /\ logs = << >>
    /\ meta = << >>
    /\ auto_save = TRUE
    /\ calls = << >>
    /\ ret = Ret("none", "s1", "none")
    /\ ParIdle
    /\ SrvIdle
    /\ JepaIdle
    /\ PureIdle

PolicyAddTurn ==
    /\ now <= MaxAdds
    /\ \E q \in Queries, r \in Responses, md \in Metas :
          /\ hist' = Append(hist, MkTurn(sess, q, r, md, now))
          /\ sess' = SessionAddTurn(sess, q, r, md, now)
    /\ now' = now + 1
    /\ UNCHANGED offPolicy

PolicyForceSummarize ==
    /\ now <= MaxAdds
    /\ sess.strategy = "summarizing"
    /\ sess' = TriggerSummarization(sess, now)
    /\ now' = now + 1
    /\ UNCHANGED <<hist, offPolicy>>

PolicyNext == PolicyAddTurn \/ PolicyForceSummarize

SpecPolicy == PolicyInit /\ [][PolicyNext]_vars

-----------------------------------------------------------------------------
(* Properties of the session policies *)

\* C1: sliding policy: after every add_turn on a session with max_turns >= 1
\* the session holds exactly the last min(n, max_turns) turns added, in add
\* order; an add_turn on a full session drops the oldest turn and only it.
SlidingKeepsLastTurns ==
    [][(sess.strategy = "trimming" /\ sess.max_turns >= 1 /\ hist' # hist) =>
         /\ sess'.turns = LastN(hist', sess.max_turns)
         /\ Len(sess'.turns) = Min(Len(hist'), sess.max_turns)
         /\ (Len(sess.turns) = sess.max_turns =>
                sess'.turns = Append(Tail(sess.turns), hist'[Len(hist')]))]_vars

SlidingDroppedOldest ==
    /\ sess.strategy = "trimming"
    /\ sess.max_turns >= 1
    /\ Len(hist) > sess.max_turns
    /\ Len(sess.turns) = sess.max_turns
    /\ hist[1].query # hist[Len(hist)].query

\* C2: under either policy every turn built by add_turn has a positive
\* turn_id strictly greater than the turn_id of every turn added before it.
TurnIdsStrictlyIncrease ==
    \A i, j \in DOMAIN hist :
        /\ hist[i].turn_id > 0
        /\ (i < j => hist[i].turn_id < hist[j].turn_id)

\* C11: summarising policy, any keep_last >= 0 and context_limit >= 0, after any
\* sequence of add_turn and force_summarize: the summarised count plus the
\* number of verbatim turns equals the number of turns ever added, and the
\* verbatim turns are the most recently added ones, in add order.
SummarizingLosesNoTurn ==
    sess.strategy = "summarizing" =>
        /\ sess.summary_turn_count + Len(sess.turns) = Len(hist)
        /\ sess.turns = LastN(hist, Len(sess.turns))

\* some turns have been summarised while others are still held verbatim
SummarizedAndKept ==
    /\ sess.strategy = "summarizing"
    /\ sess.summary_turn_count > 0
    /\ Len(sess.turns) > 0
    /\ Len(hist) = sess.summary_turn_count + Len(sess.turns)

\* C12: summarising policy: after every add_turn that leaves the number of
\* turns ever added greater than context_limit, exactly the keep_last most
\* recent turns are held verbatim, every older turn is counted in the
\* summarised count, and last_summarized_at is set.
AddBeyondLimitKeepsExactlyKeepLast ==
    [][(/\ sess.strategy = "summarizing"
        /\ Len(hist') = Len(hist) + 1
        /\ Len(hist') > sess'.context_limit)
       => (/\ sess'.turns = LastN(hist', sess'.keep_last_n_turns)
           /\ sess'.summary_turn_count = Len(hist') - Len(sess'.turns)
           /\ sess'.last_summarized_at # -1)]_vars

\* C13: for both policies and every reachable session state s,
\* from_dict(to_dict(s)) has the same policy parameters, the same turns
\* (turn_id, query, response, metadata, order), the same entities_mentioned
\* and, for the summarising policy, the same summary, summarised count and
\* last_summarized_at.
RoundTripPreservesSession ==
    LET r == RoundTrip(sess, now)
    IN /\ r.strategy = sess.strategy
       /\ r.max_turns = sess.max_turns
       /\ r.keep_last_n_turns = sess.keep_last_n_turns
       /\ r.context_limit = sess.context_limit
       /\ Len(r.turns) = Len(sess.turns)
       /\ \A i \in DOMAIN sess.turns :
              /\ r.turns[i].turn_id = sess.turns[i].turn_id
              /\ r.turns[i].query = sess.turns[i].query
              /\ r.turns[i].response = sess.turns[i].response
              /\ r.turns[i].metadata = sess.turns[i].metadata
       /\ r.entities_mentioned = sess.entities_mentioned
       /\ sess.strategy = "summarizing" =>
              /\ r.summary = sess.summary
              /\ r.summary_turn_count = sess.summary_turn_count
              /\ r.last_summarized_at = sess.last_summarized_at

\* a summarising session with a summary, verbatim turns and entities, whose
\* round trip at a later time gives the same session
RoundTripOfSummarizedSession ==
    /\ sess.strategy = "summarizing"
    /\ sess.summary # << >>
    /\ sess.last_summarized_at # -1
    /\ sess.last_summarized_at < now
    /\ Len(sess.turns) > 0
    /\ sess.entities_mentioned # << >>
    /\ RoundTrip(sess, now) = sess

\* the entities named by the metadata of the turns in ts
EntitiesOfTurns(ts) ==
    UNION {SeqRange(ts[i].metadata.entities) : i \in DOMAIN ts}

\* C30: sliding policy: once a turn has been dropped, nothing derived from it
\* remains in the session: entities_mentioned, get_summary and to_dict
\* reflect only the turns the session still holds.
DroppedTurnsLeaveNoTrace ==
    (sess.strategy = "trimming" /\ Len(hist) > Len(sess.turns)) =>
        LET held == EntitiesOfTurns(sess.turns)
        IN /\ SeqRange(sess.entities_mentioned) = held
           /\ SeqRange(TrimmingGetSummary(sess).entities) = held
           /\ TrimmingGetSummary(sess).entities_mentioned_count = Cardinality(held)
           /\ TrimmingGetSummary(sess).turn_count = Len(sess.turns)
           /\ SeqRange(TrimmingToDict(sess).entities_mentioned) = held
           /\ TrimmingToDict(sess).turns = sess.turns

\* C35: summarising policy: after every add_turn returns, the number of
\* turns held verbatim does not exceed context_limit, for every
\* keep_last_n_turns >= 0 and context_limit >= 1.
VerbatimTurnsWithinLimit ==
    [][(/\ sess.strategy = "summarizing"
        /\ sess.keep_last_n_turns >= 0
        /\ sess.context_limit >= 1
        /\ hist' # hist)
       => Len(sess'.turns) <= sess'.context_limit]_vars

-----------------------------------------------------------------------------
(* Session storage (core/storage/session_storage.py) *)

MgrSessionIds == {"s1", "s2"}

\* f"{session_id}.jsonl" / f"{session_id}.meta.json": the id as formatted into the file name
Str(k) == IF k = PyNone THEN "None" ELSE k

\* d[k] = v, creating the key when it is absent
Put(d, k, v) == [x \in DOMAIN d \cup {k} |-> IF x = k THEN v ELSE d[x]]

\* del d[k] / unlink
Drop(d, k) == [x \in DOMAIN d \ {k} |-> d[x]]

\* a missing dict key is -1 for numbers and "absent" for strings
CreatedMeta(sid, ty, strat, t) ==
    [session_id |-> sid, session_type |-> ty, strategy |-> strat, created_at |-> t,
     status |-> "active", turn_count |-> -1, last_updated |-> -1, last_saved |-> -1,
     closed_at |-> -1]

InitialMeta(sid, t) ==
    [session_id |-> sid, session_type |-> "absent", strategy |-> "absent", created_at |-> t,
     status |-> "absent", turn_count |-> 1, last_updated |-> t, last_saved |-> -1,
     closed_at |-> -1]

\* SessionStorage.load_metadata: the dict read, or None (found = FALSE)
LoadMetadata(m, sid) ==
    IF Str(sid) \in DOMAIN m.meta
    THEN [found |-> TRUE, md |-> m.meta[Str(sid)]]
    ELSE [found |-> FALSE, md |-> InitialMeta(sid, 0)]

\* the dict _update_metadata builds from what load_metadata returned
BumpMetadata(rd, sid, t) ==
    IF rd.found
    THEN [rd.md EXCEPT !.last_updated = t, !.turn_count = IF @ = -1 THEN 1 ELSE @ + 1]
    ELSE InitialMeta(sid, t)

\* SessionStorage.save_metadata
SaveMetadata(m, sid, md) == [m EXCEPT !.meta = Put(m.meta, Str(sid), md)]

\* SessionStorage._update_metadata
UpdateMetadata(m, sid, t) == SaveMetadata(m, sid, BumpMetadata(LoadMetadata(m, sid), sid, t))

\* the file append of SessionStorage.save_turn (mode 'a' creates the file)
AppendLine(m, sid, line) ==
    LET f == Str(sid) IN
    [m EXCEPT !.logs = Put(m.logs, f, IF f \in DOMAIN m.logs THEN Append(m.logs[f], line)
                                                              ELSE <<line>>)]

\* SessionStorage.save_turn
StorageSaveTurn(m, sid, line, t) == UpdateMetadata(AppendLine(m, sid, line), sid, t)

\* SessionStorage.load_session
StorageLoadSession(m, sid) == IF Str(sid) \in DOMAIN m.logs THEN m.logs[Str(sid)] ELSE << >>

\* variant that clears the whole storage directory
StorageDeleteSessionClearsDir(m, sid) ==
    [m EXCEPT !.logs = << >>, !.meta = << >>]

\* SessionStorage.delete_session
StorageDeleteSession(m, sid) ==
    [m EXCEPT !.logs = Drop(m.logs, Str(sid)), !.meta = Drop(m.meta, Str(sid))]

-----------------------------------------------------------------------------
(* Session manager (core/memory/session_manager.py) *)

\* the kwargs of create_session
Kwargs(mt, keep, limit) == [max_turns |-> mt, keep_last_n_turns |-> keep, context_limit |-> limit]

DefaultKwargs == Kwargs(DefaultMaxTurns, DefaultKeepLastN, DefaultContextLimit)

\* SessionManager.create_session
MgrCreateSession(m, sid, ty, strat, kw, t) ==
    IF sid \in DOMAIN m.active THEN m
    ELSE LET s == IF strat = "trimming"
                  THEN NewTrimming(sid, kw.max_turns, ty, t)
                  ELSE NewSummarizing(sid, kw.keep_last_n_turns, kw.context_limit, ty, t)
         IN [m EXCEPT !.active = Put(m.active, sid, s),
                      !.meta = Put(m.meta, Str(sid), CreatedMeta(sid, ty, strat, t))]

\* the replay loop of load_session
RECURSIVE Replay(_, _, _)
Replay(s, lines, t) ==
    IF lines = << >> THEN s
    ELSE Replay(SessionAddTurn(s, Head(lines).query, Head(lines).response,
                               Head(lines).metadata, t), Tail(lines), t)

\* SessionManager.load_session; the result is None iff sid is not in .active afterwards
MgrLoadSession(m, sid, t) ==
    IF sid \in DOMAIN m.active THEN m
    ELSE IF Str(sid) \notin DOMAIN m.meta THEN m
    ELSE LET md == m.meta[Str(sid)]
             strat == IF md.strategy = "absent" THEN "trimming" ELSE md.strategy
             ty == IF md.session_type = "absent" THEN "general" ELSE md.session_type
             fresh == IF strat = "trimming"
                      THEN NewTrimming(sid, DefaultMaxTurns, ty, t)
                      ELSE NewSummarizing(sid, DefaultKeepLastN, DefaultContextLimit, ty, t)
         IN [m EXCEPT !.active = Put(m.active, sid, Replay(fresh, StorageLoadSession(m, sid), t))]

\* session.to_dict().get('turns', []): only TrimmingSession.to_dict has the key 'turns'
ToDictTurns(s) == IF s.strategy = "trimming" THEN s.turns ELSE << >>

\* TrimmingSession.to_dict()['turn_count']
ToDictTurnCount(s) == Len(s.turns)

RECURSIVE SaveEach(_, _, _, _)
SaveEach(m, sid, ts, t) ==
    IF ts = << >> THEN m
    ELSE SaveEach(StorageSaveTurn(m, sid, Head(ts), t), sid, Tail(ts), t)

\* SessionManager.save_session (False iff sid is not active)
MgrSaveSession(m, sid, t) ==
    IF sid \notin DOMAIN m.active THEN m
    ELSE LET ts == ToDictTurns(m.active[sid])
             m1 == SaveEach(m, sid, ts, t)
             f == Str(sid)
         IN IF f \in DOMAIN m1.meta
            THEN [m1 EXCEPT !.meta = Put(m1.meta, f, [m1.meta[f] EXCEPT !.last_saved = t,
                                                                        !.turn_count = Len(ts)])]
            ELSE m1

\* the JSON line written by add_turn_to_session (it carries no turn_id: 0)
TurnData(q, r, md, t) ==
    [turn_id |-> 0, timestamp |-> t, query |-> q, response |-> r, metadata |-> OrEmptyDict(md)]

\* SessionManager.add_turn_to_session (False iff the session cannot be loaded)
MgrAddTurnToSession(m, sid, q, r, md, t, autosave) ==
    LET m1 == MgrLoadSession(m, sid, t) IN
    IF sid \notin DOMAIN m1.active THEN m1
    ELSE LET m2 == [m1 EXCEPT !.active[sid] = SessionAddTurn(@, q, r, md, t)]
         IN IF autosave THEN StorageSaveTurn(m2, sid, TurnData(q, r, md, t), t) ELSE m2

\* SessionManager.delete_session (True iff a file was removed)
MgrDeleteSession(m, sid) ==
    StorageDeleteSession([m EXCEPT !.active = Drop(m.active, sid)], sid)

\* SessionManager.close_session (False iff sid is not active)
MgrCloseSession(m, sid, t) ==
    IF sid \notin DOMAIN m.active THEN m
    ELSE LET m1 == MgrSaveSession(m, sid, t)
             f == Str(sid)
             m2 == IF f \in DOMAIN m1.meta
                   THEN [m1 EXCEPT !.meta = Put(m1.meta, f, [m1.meta[f] EXCEPT !.status = "closed",
                                                                               !.closed_at = t])]
                   ELSE m1
         IN [m2 EXCEPT !.active = Drop(m2.active, sid)]

-----------------------------------------------------------------------------
(* SpecMgr: the SessionManager API called by a single client *)

MaxOps == 4

M == [active |-> active, logs |-> logs, meta |-> meta]

SetM(m) == /\ active' = m.active
           /\ logs' = m.logs
           /\ meta' = m.meta

Tick == /\ now <= MaxOps
        /\ now' = now + 1

MgrKwargs == {Kwargs(mt, 1, 1) : mt \in 1..MaxTurnsBound} \cup {DefaultKwargs}

MgrInit ==
    /\ sess = NewTrimming("s1", 1, "general", 0)
    /\ hist = << >>
    /\ now = 1
    /\ active = << >>
    /\ logs = << >>
    /\ meta = << >>
    /\ auto_save \in BOOLEAN
    /\ calls = << >>
    /\ ret = Ret("none", "s1", "none")
    /\ ParIdle
    /\ SrvIdle
    /\ JepaIdle
    /\ PureIdle

CreateSession ==
    /\ Tick
    /\ \E sid \in MgrSessionIds, strat \in {"trimming", "summarizing"}, kw \in MgrKwargs :
          /\ SetM(MgrCreateSession(M, sid, "general", strat, kw, now))
          /\ ret' = Ret("create_session", sid, "session")
    /\ UNCHANGED <<offMgr, auto_save, calls>>

LoadSession ==
    /\ Tick
    /\ \E sid \in MgrSessionIds :
          LET m == MgrLoadSession(M, sid, now) IN
          /\ SetM(m)
          /\ ret' = Ret("load_session", sid, IF sid \in DOMAIN m.active THEN "session" ELSE "None")
    /\ UNCHANGED <<offMgr, auto_save, calls>>

AddTurnToSession ==
    /\ Tick
    /\ \E sid \in MgrSessionIds, q \in Queries, r \in Responses, md \in Metas :
          LET m == MgrAddTurnToSession(M, sid, q, r, md, now, auto_save)
              ok == sid \in DOMAIN m.active
              f == Str(sid)
          IN /\ SetM(m)
             /\ ret' = Ret("add_turn_to_session", sid, IF ok THEN "True" ELSE "False")
             /\ calls' = IF ok
                         THEN Put(calls, f, IF f \in DOMAIN calls
                                            THEN Append(calls[f], TurnData(q, r, md, now))
                                            ELSE <<TurnData(q, r, md, now)>>)
                         ELSE calls
    /\ UNCHANGED <<offMgr, auto_save>>

SaveSession ==
    /\ Tick
    /\ \E sid \in MgrSessionIds :
          /\ SetM(MgrSaveSession(M, sid, now))
          /\ ret' = Ret("save_session", sid, IF sid \in DOMAIN active THEN "True" ELSE "False")
    /\ UNCHANGED <<offMgr, auto_save, calls>>

CloseSession ==
    /\ Tick
    /\ \E sid \in MgrSessionIds :
          /\ SetM(MgrCloseSession(M, sid, now))
          /\ ret' = Ret("close_session", sid, IF sid \in DOMAIN active THEN "True" ELSE "False")
    /\ UNCHANGED <<offMgr, auto_save, calls>>

DeleteSession ==
    /\ Tick
    /\ \E sid \in MgrSessionIds :
          /\ SetM(MgrDeleteSession(M, sid))
          /\ ret' = Ret("delete_session", sid,
                         IF Str(sid) \in DOMAIN logs \cup DOMAIN meta THEN "True" ELSE "False")
          /\ calls' = Drop(calls, Str(sid))
    /\ UNCHANGED <<offMgr, auto_save>>

MgrNext ==
    \/ CreateSession
    \/ LoadSession
    \/ AddTurnToSession
    \/ SaveSession
    \/ CloseSession
    \/ DeleteSession

SpecMgr == MgrInit /\ [][MgrNext]_vars

-----------------------------------------------------------------------------
(* Properties of the session manager and the session store *)

\* the turn count a session reports: to_dict()['turn_count'] for the sliding
\* policy, get_summary()['total_turns'] for the summarising policy
InMemoryTurnCount(s) ==
    IF s.strategy = "trimming" THEN ToDictTurnCount(s)
    ELSE s.summary_turn_count + Len(s.turns)

LogLength(f) == IF f \in DOMAIN logs THEN Len(logs[f]) ELSE 0

\* C3: after every add_turn_to_session call that returns True with auto_save
\* enabled, the number of lines of the session's log equals the session's
\* in-memory turn_count.
LogLengthEqualsTurnCount ==
    (ret.op = "add_turn_to_session" /\ ret.val = "True" /\ auto_save) =>
        LogLength(Str(ret.sid)) = InMemoryTurnCount(active[ret.sid])

SameContent(line, turn) ==
    /\ line.query = turn.query
    /\ line.response = turn.response
    /\ line.metadata = turn.metadata

CallsOf(f) == IF f \in DOMAIN calls THEN calls[f] ELSE << >>

\* C4: the on-disk log of a session is a prefix of the sequence of turns
\* added to it: every line is an added turn, none is logged twice, and the
\* log order is the add order.
LogIsPrefixOfAddedTurns ==
    \A f \in DOMAIN logs :
        /\ Len(logs[f]) <= Len(CallsOf(f))
        /\ \A i \in DOMAIN logs[f] : SameContent(logs[f][i], CallsOf(f)[i])

-----------------------------------------------------------------------------
(* SpecPar: two threads inside add_turn_to_session for the same session.   *)
(* The code takes no lock, so the threads interleave between the           *)
(* statements of add_turn_to_session, add_turn, save_turn and              *)
(* _update_metadata.  The session is in memory, so load_session returns    *)
(* the shared object.                                                      *)

Workers == {"w1", "w2"}

WorkerQuery(w) == IF w = "w1" THEN "q1" ELSE "q2"

ParSid == "s1"

ParInit ==
    /\ sess = NewTrimming("s1", 1, "general", 0)
    /\ hist = << >>
    /\ now = 2
    /\ \E strat \in {"trimming", "summarizing"}, prior \in BOOLEAN :
          LET m0 == MgrCreateSession([active |-> << >>, logs |-> << >>, meta |-> << >>],
                                     ParSid, "general", strat, DefaultKwargs, 0)
              m == IF prior
                   THEN MgrAddTurnToSession(m0, ParSid, "q0", "r1", MetaNone, 1, TRUE)
                   ELSE m0
          IN /\ active = m.active
             /\ logs = m.logs
             /\ meta = m.meta
    /\ auto_save = TRUE
    /\ calls = << >>
    /\ ret = Ret("create_session", ParSid, "session")
    /\ pc = [w \in Workers |-> "load"]
    /\ loc = [w \in Workers |->
                [turn |-> TurnData("", "", MetaNone, 0),
                 read |-> LoadMetadata([meta |-> << >>], ParSid)]]
    /\ SrvIdle
    /\ JepaIdle
    /\ PureIdle

\* session = await self.load_session(session_id)
ParLoad(w) ==
    /\ pc[w] = "load"
    /\ SetM(MgrLoadSession(M, ParSid, now))
    /\ pc' = [pc EXCEPT ![w] = "mkturn"]
    /\ UNCHANGED <<loc, now, offPar>>

\* add_turn: the turn dict is built from len(self.turns)
ParMkTurn(w) ==
    /\ pc[w] = "mkturn"
    /\ \E md \in {MetaNone, MetaEnt(<<"e1">>)} :
          loc' = [loc EXCEPT ![w].turn = MkTurn(active[ParSid], WorkerQuery(w), "r1", md, now)]
    /\ now' = now + 1
    /\ pc' = [pc EXCEPT ![w] = "append"]
    /\ UNCHANGED <<active, logs, meta, offPar>>

\* add_turn: self.turns.append(turn) and the entity loop
ParAppend(w) ==
    /\ pc[w] = "append"
    /\ active' = [active EXCEPT ![ParSid] = AppendTurn(@, loc[w].turn, loc[w].turn.metadata)]
    /\ pc' = [pc EXCEPT ![w] = "trim"]
    /\ UNCHANGED <<logs, meta, loc, now, offPar>>

\* add_turn: the trim / summarisation check
ParTrim(w) ==
    /\ pc[w] = "trim"
    /\ active' = [active EXCEPT ![ParSid] = Trim(@, now)]
    /\ pc' = [pc EXCEPT ![w] = "write"]
    /\ UNCHANGED <<logs, meta, loc, now, offPar>>

\* save_turn: the line is appended to the log file
ParLogAppend(w) ==
    /\ pc[w] = "write"
    /\ SetM(AppendLine(M, ParSid, TurnData(loc[w].turn.query, loc[w].turn.response,
                                           loc[w].turn.metadata, now)))
    /\ pc' = [pc EXCEPT ![w] = "metaread"]
    /\ UNCHANGED <<loc, now, offPar>>

\* _update_metadata: metadata = await self.load_metadata(session_id)
ParMetaRead(w) ==
    /\ pc[w] = "metaread"
    /\ loc' = [loc EXCEPT ![w].read = LoadMetadata(M, ParSid)]
    /\ pc' = [pc EXCEPT ![w] = "metawrite"]
    /\ UNCHANGED <<active, logs, meta, now, offPar>>

\* _update_metadata: await self.save_metadata(session_id, metadata)
ParMetaWrite(w) ==
    /\ pc[w] = "metawrite"
    /\ SetM(SaveMetadata(M, ParSid, BumpMetadata(loc[w].read, ParSid, now)))
    /\ pc' = [pc EXCEPT ![w] = "done"]
    /\ UNCHANGED <<loc, now, offPar>>

ParNext ==
    \E w \in Workers :
        \/ ParLoad(w)
        \/ ParMkTurn(w)
        \/ ParAppend(w)
        \/ ParTrim(w)
        \/ ParLogAppend(w)
        \/ ParMetaRead(w)
        \/ ParMetaWrite(w)

SpecPar == ParInit /\ [][ParNext]_vars

\* positions of the two workers' turns in a sequence of turns (0: not there)
PosOf(ts, q) == IF \E i \in DOMAIN ts : ts[i].query = q
                THEN CHOOSE i \in DOMAIN ts : ts[i].query = q ELSE 0

SidecarCount(f) == IF f \in DOMAIN meta /\ meta[f].turn_count # -1 THEN meta[f].turn_count ELSE 0

\* the turns the session held before the two calls started
PriorTurns == Len(SelectSeq(logs[Str(ParSid)], LAMBDA l : l.query = "q0"))

\* C9: two parallel add_turn_to_session calls on one session are serialised:
\* both turns are in memory and in the log, with distinct turn_ids, in the
\* same relative order, and the sidecar turn_count has grown by exactly 2.
ParallelAddsAreSerialised ==
    (\A w \in Workers : pc[w] = "done") =>
        LET ts == active[ParSid].turns
            lg == logs[Str(ParSid)]
        IN /\ PosOf(ts, "q1") # 0 /\ PosOf(ts, "q2") # 0
           /\ PosOf(lg, "q1") # 0 /\ PosOf(lg, "q2") # 0
           /\ loc["w1"].turn.turn_id # loc["w2"].turn.turn_id
           /\ (PosOf(ts, "q1") < PosOf(ts, "q2")) <=> (PosOf(lg, "q1") < PosOf(lg, "q2"))
           /\ SidecarCount(Str(ParSid)) = Len(lg)
           /\ Len(lg) = PriorTurns + 2

-----------------------------------------------------------------------------
(* add_turn_to_session when the store fails: the append to the log file or *)
(* the write of the sidecar raises (disk full, permissions, file removed). *)

FailPoints == {"append", "sidecar"}

\* SessionManager.add_turn_to_session with auto_save, the store raising at `at`:
\* the exception leaves save_turn and add_turn_to_session where it is raised
MgrAddTurnFailing(m, sid, q, r, md, t, at) ==
    LET m1 == MgrLoadSession(m, sid, t) IN
    IF sid \notin DOMAIN m1.active THEN m1
    ELSE LET m2 == [m1 EXCEPT !.active[sid] = SessionAddTurn(@, q, r, md, t)]
         IN IF at = "append" THEN m2
            ELSE AppendLine(m2, sid, TurnData(q, r, md, t))

AddTurnToSessionFails ==
    /\ Tick
    /\ auto_save
    /\ \E sid \in MgrSessionIds, q \in Queries, r \in Responses, md \in Metas, at \in FailPoints :
          LET m == MgrAddTurnFailing(M, sid, q, r, md, now, at)
              ok == sid \in DOMAIN m.active
          IN /\ SetM(m)
             /\ ret' = Ret("add_turn_to_session", sid, IF ok THEN "raised" ELSE "False")
    /\ UNCHANGED <<offMgr, auto_save, calls>>

FaultNext ==
    \/ CreateSession
    \/ AddTurnToSession
    \/ AddTurnToSessionFails

SpecFault == MgrInit /\ [][FaultNext]_vars

\* the turn built at time t is held in memory / is a line of the log
HeldInMemory(act, sid, t) ==
    sid \in DOMAIN act /\ \E i \in DOMAIN act[sid].turns : act[sid].turns[i].timestamp = t

\* metadata.get('turn_count', 0) of the sidecar f in the sidecar files mt
TurnCountIn(mt, f) == IF f \in DOMAIN mt /\ mt[f].turn_count # -1 THEN mt[f].turn_count ELSE 0

LoggedAt(lg, f, t) == f \in DOMAIN lg /\ \E i \in DOMAIN lg[f] : lg[f][i].timestamp = t

\* C18: when an add_turn_to_session call fails part-way (the log append or
\* the sidecar write raises), the turn is either in the in-memory session,
\* in the log and counted in the sidecar, or in none of them.
FailedAddIsAllOrNothing ==
    [][(ret'.op = "add_turn_to_session" /\ ret'.val = "raised") =>
          LET f == Str(ret'.sid)
              inMemory == HeldInMemory(active', ret'.sid, now)
              inLog == LoggedAt(logs', f, now)
              counted == TurnCountIn(meta', f) = TurnCountIn(meta, f) + 1
          IN \/ inMemory /\ inLog /\ counted
             \/ ~inMemory /\ ~inLog /\ ~counted]_vars

\* C20: the sidecar turn_count of a session never decreases over
\* create_session, load_session, add_turn_to_session, save_session and
\* close_session calls, and every successful append raises it by exactly one.
SidecarTurnCountIsMonotonic ==
    [][ret'.op # "delete_session" =>
          /\ \A f \in {Str(sid) : sid \in MgrSessionIds} :
                 TurnCountIn(meta', f) >= TurnCountIn(meta, f)
          /\ (ret'.op = "add_turn_to_session" /\ ret'.val = "True" /\ auto_save) =>
                 TurnCountIn(meta', Str(ret'.sid)) = TurnCountIn(meta, Str(ret'.sid)) + 1]_vars

-----------------------------------------------------------------------------
(* load_session on a log file whose writer stopped in the middle of a      *)
(* line.  A line of the file is the JSON text of a turn (json = TRUE) or a *)
(* proper prefix of one, which json.loads rejects (json = FALSE).          *)

MaxLines == 3

JsonLine(turn) == [json |-> TRUE, turn |-> turn]

TornLine(turn) == [json |-> FALSE, turn |-> turn]

\* the read loop of SessionStorage.load_session: json.loads of every
\* non-blank line; a JSONDecodeError is logged and raised again
StorageLoadLines(lines) ==
    IF \E i \in DOMAIN lines : ~lines[i].json
    THEN [raised |-> TRUE, turns |-> << >>]
    ELSE [raised |-> FALSE, turns |-> [i \in DOMAIN lines |-> lines[i].turn]]

\* SessionManager.load_session of a session that is not in memory and has a
\* sidecar md: the exception of the store is not caught
MgrLoadLines(lines, md, sid, t) ==
    LET rd == StorageLoadLines(lines)
        strat == IF md.strategy = "absent" THEN "trimming" ELSE md.strategy
        ty == IF md.session_type = "absent" THEN "general" ELSE md.session_type
        fresh == IF strat = "trimming"
                 THEN NewTrimming(sid, DefaultMaxTurns, ty, t)
                 ELSE NewSummarizing(sid, DefaultKeepLastN, DefaultContextLimit, ty, t)
    IN IF rd.raised THEN [raised |-> TRUE, turns |-> << >>]
       ELSE [raised |-> FALSE, turns |-> Replay(fresh, rd.turns, t).turns]

RecoverInit ==
    /\ sess = NewTrimming("s1", 1, "general", 0)
    /\ hist = << >>
    /\ now = 1
    /\ active = << >>
    /\ logs = << >>
    /\ meta = << >>
    /\ auto_save = TRUE
    /\ calls = << >>
    /\ ret = Ret("none", "s1", "none")
    /\ ParIdle
    /\ SrvIdle
    /\ JepaIdle
    /\ arg = [lines |-> << >>,
              md |-> CreatedMeta("s1", "general", "trimming", 0)]
    /\ result = << >>
    /\ memfs = << >>

offRecover == <<memfs, policyVars, mgrVars, parVars, srvVars, jepaVars>>

\* save_turn completes: one whole line is appended to the file
WriteLine ==
    /\ result = << >>
    /\ Len(arg.lines) < MaxLines
    /\ \A i \in DOMAIN arg.lines : arg.lines[i].json
    /\ \E q \in Queries, md \in Metas :
          arg' = [arg EXCEPT !.lines = Append(@, JsonLine(TurnData(q, "r1", md, now)))]
    /\ now' = now + 1
    /\ UNCHANGED <<result, offRecover>>

\* the writer stops inside f.write: a prefix of the line reaches the file
WriteTornLine ==
    /\ result = << >>
    /\ Len(arg.lines) < MaxLines
    /\ \A i \in DOMAIN arg.lines : arg.lines[i].json
    /\ \E q \in Queries, md \in Metas :
          arg' = [arg EXCEPT !.lines = Append(@, TornLine(TurnData(q, "r1", md, now)))]
    /\ now' = now + 1
    /\ UNCHANGED <<result, offRecover>>

\* a new process calls load_session("s1")
LoadLines ==
    /\ result = << >>
    /\ result' = MgrLoadLines(arg.lines, arg.md, "s1", now)
    /\ UNCHANGED <<arg, now, offRecover>>

RecoverNext == WriteLine \/ WriteTornLine \/ LoadLines

SpecRecover == RecoverInit /\ [][RecoverNext]_vars

\* the file ends in a partial line
EndsTorn(lines) == lines # << >> /\ ~lines[Len(lines)].json

\* C21: loading a log whose last line is an incomplete JSON object succeeds
\* and returns exactly the turns of the complete lines before it, in order.
TornTailIsTolerated ==
    (result # << >> /\ EndsTorn(arg.lines)) =>
        /\ ~result.raised
        /\ Len(result.turns) = Len(arg.lines) - 1
        /\ \A i \in DOMAIN result.turns : SameContent(arg.lines[i].turn, result.turns[i])

-----------------------------------------------------------------------------
(* Retention sweep (SessionStorage.cleanup_old_sessions).  One tick of the *)
(* clock is one day; retention_days is fixed when the store is built and   *)
(* kept in arg.                                                            *)

MaxDays == 2

\* SessionStorage.list_sessions: the stems of the *.jsonl files
StorageListSessions(m) == DOMAIN m.logs

\* the loop of cleanup_old_sessions over the listed ids still to visit
RECURSIVE SweepEach(_, _, _)
SweepEach(m, ids, cutoff) ==
    IF ids = {} THEN [m |-> m, deleted |-> 0]
    ELSE LET id == CHOOSE x \in ids : TRUE
             rd == LoadMetadata(m, id)
             old == rd.found /\ rd.md.created_at < cutoff
             rest == SweepEach(IF old THEN StorageDeleteSession(m, id) ELSE m,
                               ids \ {id}, cutoff)
         IN [m |-> rest.m, deleted |-> rest.deleted + (IF old THEN 1 ELSE 0)]

\* SessionStorage.cleanup_old_sessions / SessionManager.cleanup_old_sessions
StorageCleanupOldSessions(m, days, t) ==
    IF days <= 0 THEN [m |-> m, deleted |-> 0]
    ELSE SweepEach(m, StorageListSessions(m), t - days)

SweepInit ==
    /\ sess = NewTrimming("s1", 1, "general", 0)
    /\ hist = << >>
    /\ now = 1
    /\ active = << >>
    /\ logs = << >>
    /\ meta = << >>
    /\ auto_save = TRUE
    /\ calls = << >>
    /\ ret = Ret("none", "s1", "none")
    /\ ParIdle
    /\ SrvIdle
    /\ JepaIdle
    /\ arg \in {[retention_days |-> d] : d \in 0..MaxDays}
    /\ result = << >>
    /\ memfs = << >>

CleanupOldSessions ==
    /\ Tick
    /\ LET out == StorageCleanupOldSessions(M, arg.retention_days, now)
       IN /\ SetM(out.m)
          /\ ret' = Ret("cleanup_old_sessions", PyNone, out.deleted)
    /\ UNCHANGED <<offMgr, auto_save, calls>>

SweepNext ==
    \/ CreateSession
    \/ AddTurnToSession
    \/ CloseSession
    \/ CleanupOldSessions

SpecSweep == SweepInit /\ [][SweepNext]_vars

\* the stored sessions: those with a log or a sidecar
StoredStems(lg, mt) == DOMAIN lg \cup DOMAIN mt

\* created_at of the stored session f is older than days before t
OlderThan(mt, f, days, t) == f \in DOMAIN mt /\ mt[f].created_at < t - days

\* C22: a retention sweep with retention_days = d > 0 deletes exactly the
\* stored sessions whose created_at is older than d days, log and sidecar
\* both, whether or not they have a turn, and leaves the others untouched;
\* with d = 0 it deletes nothing; a swept session is afterwards returned
\* neither by load_session nor by list_sessions.
SweepDeletesExactlyOldSessions ==
    [][ret'.op = "cleanup_old_sessions" =>
          LET d == arg.retention_days IN
          /\ d = 0 => (logs' = logs /\ meta' = meta)
          /\ d > 0 =>
                \A f \in StoredStems(logs, meta) :
                    IF OlderThan(meta, f, d, now)
                    THEN /\ f \notin StoredStems(logs', meta')
                         /\ f \notin StorageListSessions(M')
                         /\ f \notin DOMAIN MgrLoadSession(M', f, now').active
                    ELSE /\ (f \in DOMAIN logs) = (f \in DOMAIN logs')
                         /\ f \in DOMAIN logs => logs'[f] = logs[f]
                         /\ (f \in DOMAIN meta) = (f \in DOMAIN meta')
                         /\ f \in DOMAIN meta => meta'[f] = meta[f]]_vars

-----------------------------------------------------------------------------
(* Independence of sessions.  The coroutines of SessionManager and         *)
(* SessionStorage await only one another and do their file I/O with        *)
(* blocking calls, so on the event loop every operation runs to its end    *)
(* before the next one starts: the interleavings are those of SpecMgr.     *)

FrameOps == {"add_turn_to_session", "save_session", "close_session", "delete_session"}

\* the in-memory turns, the log and the sidecar of session o in a manager state
TurnsOf(act, o) == IF o \in DOMAIN act THEN <<act[o].turns>> ELSE << >>
FileOf(files, o) == IF Str(o) \in DOMAIN files THEN <<files[Str(o)]>> ELSE << >>

-----------------------------------------------------------------------------
(* Texts of the server model.  A text is a sequence of tokens; a token is  *)
(* a word, except that the reference "that function" is one token, which   *)
(* is the span ReferenceDetector matches and str.replace rewrites.         *)

MaxCalls == 3

DefaultTopK == 8
DefaultMinScore == 75
RecentTurnsN == 5
ToonMaxTokens == 8000
ToonReservedTokens == 1000

\* scores are in hundredths: DefaultMinScore is 0.75
FixedAbstainText == <<"No sufficient information found in memory for this query.">>

SrvQueries == {<<"show", "login_user">>, <<"fix", "that function">>}

ChunkAuth == [chunk_id |-> "c1", file |-> "auth.py", text |-> <<"def", "login_user">>]
ChunkReadme == [chunk_id |-> "c2", file |-> "README.md", text |-> <<"show", "readme">>]

Snapshots == {<< >>, <<ChunkAuth>>, <<ChunkReadme, ChunkAuth>>}

FuncLogin == [key |-> "auth.login_user", name |-> "login_user"]
FuncReset == [key |-> "auth.reset_pw", name |-> "reset_pw"]

CodeIndexes == {<<FuncLogin>>, <<FuncLogin, FuncReset>>}

\* DEMONSTRATIVE_PATTERNS matches with a noun in ENTITY_KEYWORDS
RefTokens == {"that function"}

\* '_' in word and word.replace('_', '').isalnum()
UnderscoreWords == {"login_user", "reset_pw", "user_model"}

\* tokens containing one of the type keywords 'function', 'método', 'def'
FunctionKwTokens == {"that function", "def"}

\* name.lower() in token.lower()
SubstrOf(name, tok) == tok = name \/ tok = "auth." \o name

TextContains(text, name) == \E i \in DOMAIN text : SubstrOf(name, text[i])

HasFunctionKw(text) == \E i \in DOMAIN text : text[i] \in FunctionKwTokens

\* tokens containing one of the type keywords 'class', 'clase'
ClassKwTokens == {"class"}

HasClassKw(text) == \E i \in DOMAIN text : text[i] \in ClassKwTokens

\* str.replace(old, new) on a token sequence
ReplaceTok(text, old, new) == [i \in DOMAIN text |-> IF text[i] = old THEN new ELSE text[i]]

RECURSIVE Flatten(_)
Flatten(ss) == IF ss = << >> THEN << >> ELSE Head(ss) \o Flatten(Tail(ss))

-----------------------------------------------------------------------------
(* Retrieval.  storage.vector_engine and storage.mp4_storage are not part  *)
(* of the sources; the engine is modelled from its specified contract: the *)
(* top_k chunks of the snapshot by descending similarity to the query.     *)

\* similarity of a query to a chunk: high iff they share a token
SimScore(query, chunk) ==
    IF \E i \in DOMAIN query, j \in DOMAIN chunk.text : query[i] = chunk.text[j]
    THEN 90 ELSE 40

RECURSIVE InsertByScore(_, _)
InsertByScore(sorted, hit) ==
    IF sorted = << >> THEN <<hit>>
    ELSE IF hit.score > Head(sorted).score THEN <<hit>> \o sorted
    ELSE <<Head(sorted)>> \o InsertByScore(Tail(sorted), hit)

RECURSIVE SortByScore(_)
SortByScore(hits) ==
    IF hits = << >> THEN << >>
    ELSE InsertByScore(SortByScore(SubSeq(hits, 1, Len(hits) - 1)), hits[Len(hits)])

\* vector_engine.search(embed_text(query), top_k): (chunk_id, score) pairs
EngineSearch(snapshot, query, top_k) ==
    LET hits == [i \in DOMAIN snapshot |->
                    [chunk_id |-> snapshot[i].chunk_id, score |-> SimScore(query, snapshot[i])]]
        ranked == SortByScore(hits)
    IN SubSeq(ranked, 1, Min(top_k, Len(ranked)))

\* next((c for c in self.storage.chunks if c.chunk_id == chunk_id), None)
ChunkById(snapshot, id) ==
    LET I == {i \in DOMAIN snapshot : snapshot[i].chunk_id = id}
    IN IF I = {} THEN << >> ELSE <<snapshot[CHOOSE i \in I : \A j \in I : i <= j]>>

BelowMinScore(score, min_score) == score < min_score

\* the loop over zip(chunk_ids, scores) of _get_context_direct
RECURSIVE FilterHits(_, _, _)
FilterHits(snapshot, hits, min_score) ==
    IF hits = << >> THEN << >>
    ELSE LET h == Head(hits)
             c == ChunkById(snapshot, h.chunk_id)
             rest == FilterHits(snapshot, Tail(hits), min_score)
         IN IF BelowMinScore(h.score, min_score) \/ c = << >> THEN rest
            ELSE <<[chunk_id |-> h.chunk_id, file |-> c[1].file, text |-> c[1].text,
                    score |-> h.score]>> \o rest

\* _format_context_response
FormatContextResponse(query, results) ==
    <<"Context for:">> \o query
        \o Flatten([i \in DOMAIN results |-> <<results[i].file>> \o results[i].text])

Provenance(results) ==
    [i \in DOMAIN results |->
        [chunk_id |-> results[i].chunk_id, file |-> results[i].file, score |-> results[i].score]]

-----------------------------------------------------------------------------
(* Token budget (shared.token_manager is not part of the sources; it is    *)
(* modelled from its specified contract, one token of budget per token of  *)
(* text).                                                                  *)

AvailableTokens == ToonMaxTokens - ToonReservedTokens

\* truncate_content(text, n): at most n tokens, the last one an ellipsis
TruncateContent(text, n) ==
    IF Len(text) <= n THEN text
    ELSE IF n = 0 THEN << >>
    ELSE SubSeq(text, 1, n - 1) \o <<"...">>

\* _optimize_response_content
OptimizeResponseContent(text) ==
    IF text = << >> \/ Len(text) <= AvailableTokens THEN text
    ELSE TruncateContent(text, AvailableTokens)

\* allocate_tokens: whole sections in descending relevance while they fit
RECURSIVE AllocateTokens(_, _)
AllocateTokens(sections, budget) ==
    IF sections = << >> \/ budget <= 0 THEN << >>
    ELSE LET sec == Head(sections)
         IN IF Len(sec.content) <= budget
            THEN <<sec>> \o AllocateTokens(Tail(sections), budget - Len(sec.content))
            ELSE <<[sec EXCEPT !.content = TruncateContent(@, budget)]>>

\* next((t for t in session_history if t.get('turn_id') == turn_id), None)
TurnById(history, id) ==
    LET I == {i \in DOMAIN history : history[i].turn_id = id}
    IN IF I = {} THEN << >> ELSE <<history[CHOOSE i \in I : \A j \in I : i <= j]>>

\* the sections _optimize_session_history builds: id "turn_<turn_id>", content
\* "Q: <query>\nA: <response>", relevance 1.0 - 0.1 * i in tenths, i counted from 0
HistorySections(history) ==
    [i \in DOMAIN history |->
        [id |-> history[i].turn_id,
         content |-> <<"Q:">> \o history[i].query \o <<"A:">> \o history[i].response,
         relevance |-> 10 - (i - 1)]]

\* allocate_tokens orders the sections by descending relevance (stable)
RECURSIVE InsertByRelevance(_, _)
InsertByRelevance(sec, sorted) ==
    IF sorted = << >> THEN <<sec>>
    ELSE IF sec.relevance > Head(sorted).relevance THEN <<sec>> \o sorted
    ELSE <<Head(sorted)>> \o InsertByRelevance(sec, Tail(sorted))

RECURSIVE SortByRelevance(_)
SortByRelevance(secs) ==
    IF secs = << >> THEN << >>
    ELSE InsertByRelevance(Head(secs), SortByRelevance(Tail(secs)))

\* section['content'].split('\nA: '): the part after the separator when the
\* split gives exactly two parts, << >> wrapped in a flag otherwise
SplitAtAnswer(content) ==
    LET I == {i \in DOMAIN content : content[i] = "A:"}
    IN IF Cardinality(I) = 1
       THEN [two |-> TRUE, tail |-> SubSeq(content, (CHOOSE i \in I : TRUE) + 1, Len(content))]
       ELSE [two |-> FALSE, tail |-> << >>]

\* the body of the loop that converts a section back to a turn
SectionToTurn(history, sec) ==
    LET found == TurnById(history, sec.id) IN
    IF found = << >> THEN << >>
    ELSE LET orig == found[1]
             full == <<"Q:">> \o orig.query \o <<"A:">> \o orig.response
             parts == SplitAtAnswer(sec.content)
         IN IF sec.content # full /\ parts.two
            THEN <<[orig EXCEPT !.response = parts.tail]>>
            ELSE <<orig>>

\* _optimize_session_history with token_manager.available_tokens = available
OptimizeHistoryWithin(history, available) ==
    IF history = << >> THEN << >>
    ELSE LET kept == AllocateTokens(SortByRelevance(HistorySections(history)), available)
         IN Flatten([i \in DOMAIN kept |-> SectionToTurn(history, kept[i])])

\* _optimize_session_history
OptimizeSessionHistory(history) == OptimizeHistoryWithin(history, AvailableTokens)

-----------------------------------------------------------------------------
(* Reference resolution (core/resolution) *)

\* ReferenceDetector.detect: the reference spans of the query
DetectReferences(query) == SelectSeq(query, LAMBDA tok : tok \in RefTokens)

\* the entities one turn contributes: its metadata entities, then its
\* function-like words, each with whether its context holds a keyword of
\* the type function (kw) and of the type class (ckw)
TurnEntities(turn) ==
    LET words == turn.query \o turn.response
        fromMeta == IF turn.metadata.has
                    THEN [i \in DOMAIN turn.metadata.entities |->
                            [name |-> turn.metadata.entities[i], turn_id |-> turn.turn_id,
                             kw |-> HasFunctionKw(words), ckw |-> HasClassKw(words)]]
                    ELSE << >>
        fromWords == Flatten([i \in DOMAIN words |->
                        IF words[i] \in UnderscoreWords
                        THEN <<[name |-> words[i], turn_id |-> turn.turn_id,
                                kw |-> HasFunctionKw(SubSeq(words, Max(1, i - 5),
                                                           Min(Len(words), i + 5))),
                                ckw |-> HasClassKw(SubSeq(words, Max(1, i - 5),
                                                          Min(Len(words), i + 5)))]>>
                        ELSE << >>])
    IN fromMeta \o fromWords

\* _extract_entities_from_history
ExtractEntitiesFromHistory(history) == Flatten([i \in DOMAIN history |-> TurnEntities(history[i])])

\* the entities whose context holds a keyword of the type; the types bug and
\* file have keywords no context of the model holds, the others have none
TypedEntities(ty, ents) ==
    IF ty = "function" THEN SelectSeq(ents, LAMBDA e : e.kw)
    ELSE IF ty = "class" THEN SelectSeq(ents, LAMBDA e : e.ckw)
    ELSE << >>

\* sorted(relevant, key=turn_id, reverse=True)[0]: the first entity of the
\* highest turn_id (the sort is stable)
MostRecentEntity(relevant) ==
    LET top == {i \in DOMAIN relevant :
                   \A j \in DOMAIN relevant : relevant[j].turn_id <= relevant[i].turn_id}
    IN relevant[CHOOSE i \in top : \A j \in top : i <= j]

\* _resolve_from_history for a reference of type ty: the most recent relevant
\* entity, all entities being relevant when none is typed; "" when there is none
ResolveFromHistoryTyped(ty, ents) ==
    LET typed == TypedEntities(ty, ents)
        relevant == IF typed = << >> THEN ents ELSE typed
    IN IF relevant = << >> THEN "" ELSE MostRecentEntity(relevant).name

\* _resolve_from_history for a reference to a function
ResolveFromHistory(ents) == ResolveFromHistoryTyped("function", ents)

\* _resolve_from_code_index on code_index[index_key]: only when exactly one
\* entity is indexed
ResolveFromCodeIndex(index) == IF Len(index) = 1 THEN index[1].key ELSE ""

\* _resolve_reference for a demonstrative reference to a function
ResolveReference(ents, index) ==
    IF ResolveFromHistory(ents) # "" THEN ResolveFromHistory(ents)
    ELSE ResolveFromCodeIndex(index)

RECURSIVE RewriteRefs(_, _, _, _)
RewriteRefs(query, refs, ents, index) ==
    IF refs = << >> THEN [expanded |-> query, resolved |-> << >>]
    ELSE LET name == ResolveReference(ents, index)
             q1 == IF name = "" THEN query ELSE ReplaceTok(query, Head(refs), name)
             rest == RewriteRefs(q1, Tail(refs), ents, index)
         IN [expanded |-> rest.expanded,
             resolved |-> (IF name = "" THEN << >>
                           ELSE <<[original_text |-> Head(refs), resolved_entity |-> name]>>)
                          \o rest.resolved]

\* ContextualResolver.resolve_query
ResolveQuery(query, history, index) ==
    RewriteRefs(query, DetectReferences(query), ExtractEntitiesFromHistory(history), index)

\* the session is in memory or has a file on disk
KnownSession(sid) ==
    sid \in DOMAIN active \/ Str(sid) \in DOMAIN meta \/ Str(sid) \in DOMAIN logs

\* C19: get_context, get_session_summary and delete_session called with a
\* session_id that exists neither in memory nor on disk answer with
\* _meta.error = true and _meta.reason = session_not_found and leave the
\* session store, the in-memory sessions and the entity tracker unchanged.
MissingSessionIsReported ==
    [][(/\ now' # now
        /\ call'.tool \in {"get_context", "get_session_summary", "delete_session"}
        /\ call'.session_id # PyNone
        /\ ~KnownSession(call'.session_id))
       => (/\ resp'.kind = "error"
           /\ resp'.reason = "session_not_found"
           /\ active' = active
           /\ logs' = logs
           /\ meta' = meta
           /\ mentions' = mentions)]_vars

\* a summary was asked of a missing session while another session is held
SummaryOfMissingSession ==
    /\ call.tool = "get_session_summary"
    /\ call.session_id # PyNone
    /\ ~KnownSession(call.session_id)
    /\ resp.reason = "session_not_found"
    /\ DOMAIN active # {}

-----------------------------------------------------------------------------
(* Reference resolution at the granularity of character runs.  The server  *)
(* model above abstracts a reference span to one token; here a query is a  *)
(* sequence of runs of characters, words being separated by the run " ",   *)
(* so that the regular expressions' word boundaries and the substring      *)
(* semantics of str.replace are both visible ("functions" is the run       *)
(* "function" followed by the run "s").                                    *)

MaxPhrases == 3

Sp == " "

Phrases == { <<"fix">>, <<"it">>,
             <<"that", Sp, "function">>,
             <<"that", Sp, "class">>,
             <<"the", Sp, "function">>,
             <<"the", Sp, "function", "s">>,
             <<"the", Sp, "previous", Sp, "function">> }

RECURSIVE JoinPhrases(_)
JoinPhrases(ps) ==
    IF Len(ps) = 1 THEN ps[1] ELSE ps[1] \o <<Sp>> \o JoinPhrases(Tail(ps))

ResolverQueries ==
    {JoinPhrases(ps) : ps \in UNION {[1..n -> Phrases] : n \in 1..MaxPhrases}}

HistoryTurn(id, q) ==
    [turn_id |-> id, timestamp |-> id, query |-> q, response |-> <<"r1">>, metadata |-> MetaEmpty]

\* session histories handed to resolve_query: none; one turn naming reset_pw
\* without a type keyword; turns that define functions; a turn about a class
ResolverHistories ==
    { << >>,
      <<HistoryTurn(1, <<"show", "reset_pw">>)>>,
      <<HistoryTurn(1, <<"def", "login_user">>), HistoryTurn(2, <<"show", "reset_pw">>)>>,
      <<HistoryTurn(1, <<"def", "login_user">>), HistoryTurn(2, <<"def", "reset_pw">>)>>,
      <<HistoryTurn(1, <<"class", "user_model">>)>> }

ClassUser == [key |-> "models.User", name |-> "User"]

\* the code_index dict handed to resolve_query
ResolverIndexes ==
    [functions : {<< >>, <<FuncLogin>>, <<FuncLogin, FuncReset>>},
     classes : {<< >>, <<ClassUser>>}]

Determiners == {"that", "this", "these", "those"}
PronounWords == {"it", "its", "them", "their"}
PreviousWords == {"previous", "last", "earlier", "prior"}
EntityKeywords == {"function", "method", "class", "module", "variable", "bug",
                   "error", "issue", "feature", "file"}

\* \b before run i / after run i
WordStart(q, i) == i = 1 \/ q[i - 1] = Sp
WordEnd(q, i) == i = Len(q) \/ q[i + 1] = Sp

\* run i is a whole word of the set W
IsWord(q, i, W) == i \in DOMAIN q /\ q[i] \in W /\ WordStart(q, i) /\ WordEnd(q, i)

\* the noun (\w+, greedy) that starts at run i is in ENTITY_KEYWORDS
KeywordAt(q, i) == IsWord(q, i, EntityKeywords)

Positions(q) == [i \in 1..Len(q) |-> i]

Reference(q, i, n, ty) == [text |-> SubSeq(q, i, i + n - 1), ref_type |-> ty, position |-> i]

\* \b(that|this|these|those)\s+(\w+) with a keyword noun
DetectDemonstratives(q) ==
    LET pos == SelectSeq(Positions(q),
                         LAMBDA i : IsWord(q, i, Determiners) /\ KeywordAt(q, i + 2))
    IN [k \in DOMAIN pos |-> Reference(q, pos[k], 3, "demonstrative")]

\* \b(it|its|them|their)\b
DetectPronouns(q) ==
    LET pos == SelectSeq(Positions(q), LAMBDA i : IsWord(q, i, PronounWords))
    IN [k \in DOMAIN pos |-> Reference(q, pos[k], 1, "pronoun")]

\* \b(the\s+)?(previous|last|earlier|prior)\s+(\w+) with a keyword noun; a
\* match that starts at "the" consumes the word after it
DetectPrevious(q) ==
    LET withThe(i) == /\ IsWord(q, i, {"the"})
                      /\ IsWord(q, i + 2, PreviousWords)
                      /\ KeywordAt(q, i + 4)
        bare(i) == /\ IsWord(q, i, PreviousWords)
                   /\ ~IsWord(q, i - 2, {"the"})
                   /\ KeywordAt(q, i + 2)
        pos == SelectSeq(Positions(q), LAMBDA i : withThe(i) \/ bare(i))
    IN [k \in DOMAIN pos |->
          Reference(q, pos[k], IF q[pos[k]] = "the" THEN 5 ELSE 3, "previous")]

\* \bthe\s+(\w+)\b with a keyword noun
DetectImplicit(q) ==
    LET pos == SelectSeq(Positions(q),
                         LAMBDA i : IsWord(q, i, {"the"}) /\ KeywordAt(q, i + 2))
    IN [k \in DOMAIN pos |-> Reference(q, pos[k], 3, "implicit")]

\* ReferenceDetector.detect: by kind, and by position within a kind
Detect(q) ==
    DetectDemonstratives(q) \o DetectPronouns(q) \o DetectPrevious(q) \o DetectImplicit(q)

\* extract_entity_type: a keyword contained in the reference text, "" for None
ExtractEntityType(text) ==
    IF \E i \in DOMAIN text : text[i] \in EntityKeywords
    THEN text[CHOOSE i \in DOMAIN text : text[i] \in EntityKeywords]
    ELSE ""

\* type_mapping of _resolve_from_code_index: the key of code_index, "" for None
IndexKey(ty) ==
    IF ty \in {"function", "method"} THEN "functions"
    ELSE IF ty = "class" THEN "classes"
    ELSE ""

Unresolved == [name |-> "", source |-> ""]

\* _resolve_reference: history for demonstrative and previous references, the
\* tracker (which never resolves), then the code index; Unresolved for None
ResolveWithSource(ref, ents, index) ==
    LET ty == ExtractEntityType(ref.text)
        fromHistory == IF ref.ref_type \in {"demonstrative", "previous"}
                       THEN ResolveFromHistoryTyped(ty, ents) ELSE ""
    IN IF ty = "" THEN Unresolved
       ELSE IF fromHistory # "" THEN [name |-> fromHistory, source |-> "session_history"]
       ELSE IF IndexKey(ty) = "" THEN Unresolved
       ELSE IF ResolveFromCodeIndex(index[IndexKey(ty)]) = "" THEN Unresolved
       ELSE [name |-> ResolveFromCodeIndex(index[IndexKey(ty)]), source |-> "code_index"]

\* the resolved_entity of _resolve_reference, "" for None
ResolveDetected(ref, ents, index) == ResolveWithSource(ref, ents, index).name

\* str.replace(old, new): every non-overlapping occurrence, left to right
RECURSIVE StrReplace(_, _, _)
StrReplace(text, old, new) ==
    IF Len(text) < Len(old) THEN text
    ELSE IF SubSeq(text, 1, Len(old)) = old
         THEN new \o StrReplace(SubSeq(text, Len(old) + 1, Len(text)), old, new)
         ELSE <<Head(text)>> \o StrReplace(Tail(text), old, new)

\* the loop of resolve_query over the detected references
RECURSIVE RewriteDetected(_, _, _, _)
RewriteDetected(query, refs, ents, index) ==
    IF refs = << >> THEN [expanded |-> query, resolved |-> << >>]
    ELSE LET name == ResolveDetected(Head(refs), ents, index)
             q1 == IF name = "" THEN query ELSE StrReplace(query, Head(refs).text, <<name>>)
             rest == RewriteDetected(q1, Tail(refs), ents, index)
         IN [expanded |-> rest.expanded,
             resolved |-> (IF name = "" THEN << >>
                           ELSE <<[original_text |-> Head(refs).text,
                                   resolved_entity |-> name,
                                   source |-> ResolveWithSource(Head(refs), ents, index).source]>>)
                          \o rest.resolved]

\* ContextualResolver.resolve_query on a query of character runs
ResolveQueryRuns(query, history, index) ==
    RewriteDetected(query, Detect(query), ExtractEntitiesFromHistory(history), index)

ResolveInit ==
    /\ sess = NewTrimming("s1", 1, "general", 0)
    /\ hist = << >>
    /\ now = 1
    /\ active = << >>
    /\ logs = << >>
    /\ meta = << >>
    /\ auto_save = TRUE
    /\ calls = << >>
    /\ ret = Ret("none", "s1", "none")
    /\ ParIdle
    /\ SrvIdle
    /\ JepaIdle
    /\ arg \in [query : ResolverQueries, history : ResolverHistories, index : ResolverIndexes]
    /\ result = << >>
    /\ memfs = << >>

\* expanded_query, resolved_refs = await resolver.resolve_query(...)
ResolveCall ==
    /\ result = << >>
    /\ result' = ResolveQueryRuns(arg.query, arg.history, arg.index)
    /\ UNCHANGED <<arg, memfs, now, policyVars, mgrVars, parVars, srvVars, jepaVars>>

ResolveNext == ResolveCall

SpecResolve == ResolveInit /\ [][ResolveNext]_vars

\* the detected references of the call that resolve to a name
ResolvedSpans ==
    SelectSeq(Detect(arg.query),
              LAMBDA r : ResolveDetected(r, ExtractEntitiesFromHistory(arg.history),
                                         arg.index) # "")

\* the query with each span of refs replaced, at its position, by its name
RECURSIVE SpanRewrite(_, _, _)
SpanRewrite(q, i, refs) ==
    IF i > Len(q) THEN << >>
    ELSE IF \E k \in DOMAIN refs : refs[k].position = i
         THEN LET r == refs[CHOOSE k \in DOMAIN refs : refs[k].position = i]
              IN <<ResolveDetected(r, ExtractEntitiesFromHistory(arg.history), arg.index)>>
                 \o SpanRewrite(q, i + Len(r.text), refs)
         ELSE <<q[i]>> \o SpanRewrite(q, i + 1, refs)

Occurs(text, old) ==
    \E i \in 1..Len(text) : i + Len(old) - 1 <= Len(text) /\ SubSeq(text, i, i + Len(old) - 1) = old

\* C14: for every resolve_query call the rewritten query contains none of the
\* resolved reference spans, each resolved span is replaced by its resolved
\* name exactly once, in left-to-right order of the positions, and all text
\* outside resolved spans (unresolved references included) is unchanged.
RewriteReplacesExactlyResolvedSpans ==
    result # << >> =>
        /\ result.expanded = SpanRewrite(arg.query, 1, ResolvedSpans)
        /\ \A k \in DOMAIN ResolvedSpans : ~Occurs(result.expanded, ResolvedSpans[k].text)
        /\ Len(result.resolved) = Len(ResolvedSpans)

\* the entities of the call's history
HistoryEntities == ExtractEntitiesFromHistory(arg.history)

\* C28: a demonstrative or previous reference is resolved from session
\* history only to an entity whose context holds a type keyword matching the
\* reference's head noun, and among such entities to one mentioned in the
\* most recent turn; when no entity of the history matches the type, the
\* reference is not resolved from history.
HistoryResolvesOnlyTypedEntities ==
    result # << >> =>
        \A k \in DOMAIN result.resolved :
            LET r == result.resolved[k]
                typed == TypedEntities(ExtractEntityType(r.original_text), HistoryEntities)
            IN r.source = "session_history" =>
                   \E i \in DOMAIN typed :
                       /\ typed[i].name = r.resolved_entity
                       /\ \A j \in DOMAIN typed : typed[j].turn_id <= typed[i].turn_id

\* the index entries of the type a reference asks for
IndexedOfType(ty) == IF IndexKey(ty) = "" THEN << >> ELSE arg.index[IndexKey(ty)]

\* text occurs in query as a contiguous span
OccursIn(text, query) ==
    \E i \in 1..(Len(query) - Len(text) + 1) : SubSeq(query, i, i + Len(text) - 1) = text

\* C29: a reference that is not resolved from session history is resolved
\* from the entity index if and only if the index holds exactly one entity of
\* the requested type, and is then replaced by that entity's name with source
\* code_index; with zero or several entities of that type it stays
\* unresolved and its text stays in the query.
IndexResolvesIffExactlyOne ==
    result # << >> =>
        \A r \in DOMAIN Detect(arg.query) :
            LET ref == Detect(arg.query)[r]
                indexed == IndexedOfType(ExtractEntityType(ref.text))
                answers == {k \in DOMAIN result.resolved :
                                result.resolved[k].original_text = ref.text}
            IN ResolveWithSource(ref, HistoryEntities, arg.index).source # "session_history" =>
                   IF Len(indexed) = 1
                   THEN /\ answers # {}
                        /\ \A k \in answers :
                               /\ result.resolved[k].resolved_entity = indexed[1].name
                               /\ result.resolved[k].source = "code_index"
                   ELSE /\ answers = {}
                        /\ OccursIn(ref.text, result.expanded)

-----------------------------------------------------------------------------
(* Entity tracker (core/indexing/entity_tracker.py) *)

\* extract_entities_from_text: list(set(...)) of the indexed names found in
\* the text; the order of a set of strings is arbitrary, `rev` picks it
ExtractEntitiesFromText(index, text, rev) ==
    LET found == SelectSeq([i \in DOMAIN index |-> index[i].name],
                           LAMBDA n : TextContains(text, n))
    IN IF rev THEN [i \in DOMAIN found |-> found[Len(found) + 1 - i]] ELSE found

\* record_turn: one mention per entity found in "query response"
RecordTurn(ments, sid, turn_id, entities) ==
    ments \o [i \in DOMAIN entities |->
                [entity_name |-> entities[i], session_id |-> sid, turn_id |-> turn_id]]

-----------------------------------------------------------------------------
(* Tool handlers of MCPServerV6 (core/v6.py).  A handler maps the server   *)
(* state st = [m, mentions, cur_sid, cur_path] to an outcome               *)
(* [st, resp, raised]; raised = an exception left the handler.             *)

BaseResp ==
    [kind |-> "none", failed |-> FALSE, reason |-> "absent", text |-> << >>,
     abstained |-> FALSE, provenance |-> << >>, query |-> << >>,
     session_id |-> "absent", original_query |-> << >>, expanded_query |-> << >>,
     resolved |-> << >>, entities_mentioned |-> << >>]

OkResp(text) == [BaseResp EXCEPT !.kind = "ok", !.text = text]

\* {'content': ..., '_meta': {'error': True, 'reason': reason}}; reason
\* "absent" when _meta has no such key
ErrorResp(text, reason, failed) ==
    [BaseResp EXCEPT !.kind = "error", !.text = text, !.reason = reason, !.failed = failed]

RaisedResp == [BaseResp EXCEPT !.kind = "raised", !.failed = TRUE]

Outcome(st, r) == [st |-> st, resp |-> r, raised |-> FALSE]

Raise(st) == [st |-> st, resp |-> RaisedResp, raised |-> TRUE]

SrvState == [m |-> M, mentions |-> mentions, cur_sid |-> cur_sid, cur_path |-> cur_path]

\* os.path.basename
Basename(path) ==
    IF path = "/w/s1" THEN "s1" ELSE IF path = "/w/None" THEN "None" ELSE ""

\* _get_context_direct
GetContextDirect(st, query, top_k, min_score) ==
    IF vector_engine = "none" THEN Raise(st)
    ELSE LET results == FilterHits(chunks, EngineSearch(chunks, query, top_k), min_score)
             abstained == results = << >> \/ results[1].score < min_score
         IN Outcome(st, [OkResp(IF abstained THEN FixedAbstainText
                                ELSE FormatContextResponse(query, results))
                           EXCEPT !.query = query, !.abstained = abstained,
                                  !.provenance = Provenance(results)])

TurnQueryStoresExpanded(query, expanded) == expanded

\* the query stored with the turn by _get_context_with_session
TurnQuery(query, expanded) == query

\* _get_context_with_session; sid is args.get('session_id')
GetContextWithSession(st, sid, query, top_k, min_score, t, rev) ==
    LET m1 == MgrLoadSession(st.m, sid, t)
        st1 == [st EXCEPT !.m = m1]
    IN IF sid \notin DOMAIN m1.active
       THEN Outcome(st1, ErrorResp(<<"Session", Str(sid), "not found">>, "session_not_found", FALSE))
       ELSE LET session_history == SliceLast(m1.active[sid].turns, RecentTurnsN)
                rq == ResolveQuery(query, OptimizeSessionHistory(session_history), code_index)
                d == GetContextDirect(st1, rq.expanded, top_k, min_score)
            IN IF d.raised THEN d
               ELSE LET text == OptimizeResponseContent(d.resp.text)
                        entities == ExtractEntitiesFromText(tracker_index, query \o text, rev)
                        ments == RecordTurn(st.mentions, sid, Len(session_history) + 1, entities)
                        m2 == MgrAddTurnToSession(m1, sid, TurnQuery(query, rq.expanded), text,
                                                  MetaEnt(entities), t, auto_save)
                    IN Outcome([st EXCEPT !.m = m2, !.mentions = ments],
                               [d.resp EXCEPT !.text = text, !.session_id = sid,
                                              !.original_query = query,
                                              !.expanded_query = rq.expanded,
                                              !.resolved = rq.resolved,
                                              !.entities_mentioned = entities])

\* _get_context; sid is args.get('session_id'), PyNone when the key is absent
GetContext(st, sid, query, top_k, min_score, t, rev) ==
    LET session_id == IF sid # PyNone THEN sid ELSE st.cur_sid
    IN IF session_id = PyNone THEN GetContextDirect(st, query, top_k, min_score)
       ELSE LET w == GetContextWithSession(st, sid, query, top_k, min_score, t, rev)
            IN IF w.raised THEN GetContextDirect(w.st, query, top_k, min_score) ELSE w

\* _create_session
ToolCreateSession(st, sid, ty, strat, t) ==
    IF strat \notin {"trimming", "summarizing"} THEN Raise(st)
    ELSE Outcome([st EXCEPT !.m = MgrCreateSession(st.m, sid, ty, strat, DefaultKwargs, t)],
                 [OkResp(<<"Session created:", Str(sid)>>) EXCEPT !.session_id = sid])

\* _delete_session
ToolDeleteSession(st, sid) ==
    LET deleted == Str(sid) \in DOMAIN st.m.logs \cup DOMAIN st.m.meta
        st1 == [st EXCEPT !.m = MgrDeleteSession(st.m, sid)]
    IN IF deleted
       THEN Outcome(st1, [OkResp(<<"Session", Str(sid), "deleted successfully.">>)
                            EXCEPT !.session_id = sid])
       ELSE Outcome(st1, ErrorResp(<<"Session", Str(sid), "not found.">>,
                                   "session_not_found", FALSE))

\* variant that answers with a summary whether or not one was found
ToolGetSessionSummaryUnchecked(st, sid) ==
    Outcome(st, [OkResp(<<"Session Summary:", Str(sid)>>) EXCEPT !.session_id = sid])

\* _get_session_summary: the active session's summary, else the stored one,
\* else (no sidecar) session_not_found
ToolGetSessionSummary(st, sid) ==
    IF sid \in DOMAIN st.m.active \/ LoadMetadata(st.m, sid).found
    THEN Outcome(st, [OkResp(<<"Session Summary:", Str(sid)>>) EXCEPT !.session_id = sid])
    ELSE Outcome(st, ErrorResp(<<"Session", Str(sid), "not found">>,
                               "session_not_found", FALSE))

\* _handle_smart_session_init
SmartSessionInit(st, path, t) ==
    LET session_id == IF Basename(path) = "" THEN "general" ELSE Basename(path)
        m1 == MgrCreateSession(st.m, session_id, "feature", "trimming", DefaultKwargs, t)
    IN Outcome([st EXCEPT !.m = m1, !.cur_sid = session_id,
                          !.cur_path = IF path # "" THEN path ELSE @],
               OkResp(<<"Smart session", session_id, "initialized">>))

\* _handle_smart_query
SmartQuery(st, path, query, top_k, min_score, t, rev) ==
    LET project_path == IF path # "" THEN path ELSE st.cur_path
        from_path == IF project_path # ""
                     THEN (IF Basename(project_path) = "" THEN "general"
                           ELSE Basename(project_path))
                     ELSE PyNone
        session_id == IF from_path # PyNone THEN from_path
                      ELSE IF st.cur_sid # PyNone THEN st.cur_sid ELSE "general"
        m1 == MgrLoadSession(st.m, session_id, t)
        m2 == IF session_id \in DOMAIN m1.active THEN m1
              ELSE MgrCreateSession(m1, session_id, "feature", "trimming", DefaultKwargs, t)
        st1 == [st EXCEPT !.m = m2, !.cur_sid = session_id,
                          !.cur_path = IF project_path # "" THEN project_path ELSE @]
    IN GetContextWithSession(st1, session_id, query, top_k, min_score, t, rev)

\* _handle_tools_call around a v6 tool: `except Exception` answers for it
V6Tool(out) ==
    IF out.raised
    THEN Outcome(out.st, ErrorResp(<<"Error executing">>, "absent", TRUE))
    ELSE out

\* _handle_tools_call around a v5 tool: the handler is called bare
V5Tool(out) == out

\* _handle_tools_call for a name in neither table
UnknownTool(st) == Outcome(st, ErrorResp(<<"Unknown tool:">>, "absent", FALSE))

-----------------------------------------------------------------------------
(* SpecServer: tools/call requests handled one at a time *)

SrvSessionIds == {"s1", PyNone}
ProjectPaths == {"", "/w/s1", "/w/None"}
TopKs == {DefaultTopK, 1}
MinScores == {DefaultMinScore, 90}

Call(tool, sid, query, top_k, min_score, path, strat) ==
    [tool |-> tool, session_id |-> sid, query |-> query, top_k |-> top_k,
     min_score |-> min_score, path |-> path, strategy |-> strat]

NoCall == Call("none", PyNone, << >>, DefaultTopK, DefaultMinScore, "", "")

SrvInit ==
    /\ sess = NewTrimming("s1", 1, "general", 0)
    /\ hist = << >>
    /\ now = 1
    /\ active = << >>
    /\ logs = << >>
    /\ meta = << >>
    /\ auto_save = TRUE
    /\ calls = << >>
    /\ ret = Ret("none", "s1", "none")
    /\ ParIdle
    /\ JepaIdle
    /\ PureIdle
    /\ cur_sid = PyNone
    /\ cur_path = ""
    /\ vector_engine \in {"ok", "none"}
    /\ chunks \in Snapshots
    /\ code_index \in CodeIndexes
    /\ tracker_index = code_index
    /\ mentions = << >>
    /\ resp = BaseResp
    /\ call = NoCall

\* the request is answered: the handler's effects and its response are visible
Answer(out, c) ==
    /\ now <= MaxCalls
    /\ now' = now + 1
    /\ SetM(out.st.m)
    /\ mentions' = out.st.mentions
    /\ cur_sid' = out.st.cur_sid
    /\ cur_path' = out.st.cur_path
    /\ resp' = out.resp
    /\ call' = c
    /\ UNCHANGED <<vector_engine, chunks, code_index, tracker_index, offSrv>>

\* the orders list(set(...)) can give the entities found
SetOrders == IF Len(tracker_index) > 1 THEN BOOLEAN ELSE {FALSE}

CallGetContext ==
    \E sid \in {"s1", "None", PyNone}, q \in SrvQueries, k \in TopKs, ms \in MinScores,
       rev \in SetOrders :
        Answer(V5Tool(GetContext(SrvState, sid, q, k, ms, now, rev)),
               Call("get_context", sid, q, k, ms, "", ""))

CallCreateSession ==
    \E sid \in SrvSessionIds, strat \in {"trimming", "summarizing", "bogus"} :
        Answer(V6Tool(ToolCreateSession(SrvState, sid, "general", strat, now)),
               Call("create_session", sid, << >>, DefaultTopK, DefaultMinScore, "", strat))

CallDeleteSession ==
    \E sid \in SrvSessionIds :
        Answer(V6Tool(ToolDeleteSession(SrvState, sid)),
               Call("delete_session", sid, << >>, DefaultTopK, DefaultMinScore, "", ""))

CallSmartSessionInit ==
    \E path \in ProjectPaths :
        Answer(V6Tool(SmartSessionInit(SrvState, path, now)),
               Call("smart_session_init", PyNone, << >>, DefaultTopK, DefaultMinScore, path, ""))

CallSmartQuery ==
    \E path \in {"", "/w/s1"}, q \in SrvQueries, rev \in SetOrders :
        Answer(V6Tool(SmartQuery(SrvState, path, q, DefaultTopK, DefaultMinScore, now, rev)),
               Call("smart_query", PyNone, q, DefaultTopK, DefaultMinScore, path, ""))

CallUnknownTool ==
    Answer(UnknownTool(SrvState),
           Call("no_such_tool", PyNone, << >>, DefaultTopK, DefaultMinScore, "", ""))

SrvNext ==
    \/ CallGetContext
    \/ CallCreateSession
    \/ CallDeleteSession
    \/ CallSmartSessionInit
    \/ CallSmartQuery
    \/ CallUnknownTool

SpecServer == SrvInit /\ [][SrvNext]_vars

CallGetSessionSummary ==
    \E sid \in SrvSessionIds :
        Answer(V6Tool(ToolGetSessionSummary(SrvState, sid)),
               Call("get_session_summary", sid, << >>, DefaultTopK, DefaultMinScore, "", ""))

\* the session tools of the server, with get_context
SessionsNext ==
    \/ CallGetContext
    \/ CallCreateSession
    \/ CallDeleteSession
    \/ CallGetSessionSummary
    \/ CallSmartSessionInit

SpecSessions == SrvInit /\ [][SessionsNext]_vars

-----------------------------------------------------------------------------
(* Properties of the get_context path *)

IsGetContextStep == now' # now /\ call'.tool = "get_context"

SessionExists(sid) == sid \in DOMAIN active \/ Str(sid) \in DOMAIN meta

\* the turns the session holds when the call arrives (replayed from the log
\* when the session is not in memory)
TurnsBefore(sid) == MgrLoadSession(M, sid, now).active[sid].turns

LogBefore(f) == IF f \in DOMAIN logs THEN logs[f] ELSE << >>

Records(turn, query, text, entities) ==
    /\ turn.query = query
    /\ turn.response = text
    /\ turn.metadata.has
    /\ turn.metadata.entities = entities

ToolsCallNeverRaises ==
    /\ resp.kind # "raised"
    /\ resp.failed => (resp.kind = "error" /\ resp.reason # "absent")

\* the retrieved chunks that clear min_score, as (chunk_id, score) pairs
ClearingHits(query, top_k, min_score) ==
    SelectSeq(EngineSearch(chunks, query, top_k), LAMBDA h : h.score >= min_score)

\* C7: whenever get_context is not answered by a structured error, it answers
\* with a success whose provenance is exactly the retrieved chunks with
\* score >= min_score, abstaining with the fixed text iff there is none; it
\* abstains on an empty snapshot.
GetContextAbstainsIffNothingClears ==
    (call.tool = "get_context" /\ resp.kind # "error") =>
        LET expect == ClearingHits(resp.query, call.top_k, call.min_score)
        IN /\ resp.kind = "ok"
           /\ [i \in DOMAIN resp.provenance |->
                 [chunk_id |-> resp.provenance[i].chunk_id, score |-> resp.provenance[i].score]]
              = expect
           /\ resp.abstained <=> expect = << >>
           /\ resp.abstained <=> resp.text = FixedAbstainText
           /\ chunks = << >> => resp.abstained

\* C8: a get_context call without session_id appends no turn to any session,
\* changes no log and no sidecar, and records no entity mention, whatever
\* calls came before it.
GetContextWithoutSessionIsRetrievalOnly ==
    [][(IsGetContextStep /\ call'.session_id = PyNone) =>
           /\ logs' = logs
           /\ meta' = meta
           /\ mentions' = mentions
           /\ \A sid \in DOMAIN active :
                 sid \in DOMAIN active' /\ active'[sid].turns = active[sid].turns]_vars

-----------------------------------------------------------------------------
(* SpecJepa: FactualAuditJEPA with one thread in update_world_model (the   *)
(* sync_world_model tool) and one in audit_proposal (the audit_jepa tool). *)
(* self.facts is a reference to a list object; `self.facts = []` binds a   *)
(* new object, append mutates the object in place, and a for loop iterates *)
(* the object it was started on by index.                                  *)

MaxSyncs == 2
MaxAudits == 2

\* the sections found by a scan of the context directory
FactSources == {<<"f1", "f2">>, <<"g1", "g2", "g3">>}

JepaInit ==
    /\ sess = NewTrimming("s1", 1, "general", 0)
    /\ hist = << >>
    /\ now = 1
    /\ active = << >>
    /\ logs = << >>
    /\ meta = << >>
    /\ auto_save = TRUE
    /\ calls = << >>
    /\ ret = Ret("none", "s1", "none")
    /\ ParIdle
    /\ SrvIdle
    /\ PureIdle
    /\ \E src \in FactSources :
          /\ heap = <<src>>
          /\ jloc = [todo |-> << >>, built |-> src, ref |-> 0, idx |-> 0, seen |-> << >>,
                     allowed |-> {}, result |-> "none", syncs |-> 0, audits |-> 0]
    /\ facts_ref = 1
    /\ jpc = [writer |-> "idle", reader |-> "idle"]

\* update_world_model: self.world_map = {}; self.facts = []
SyncRebind ==
    /\ jpc.writer = "idle"
    /\ jloc.syncs < MaxSyncs
    /\ \E src \in FactSources :
          jloc' = [jloc EXCEPT !.todo = src, !.syncs = @ + 1,
                               !.allowed = IF jpc.reader = "idle" THEN @ ELSE @ \cup {src}]
    /\ heap' = Append(heap, << >>)
    /\ facts_ref' = Len(heap) + 1
    /\ jpc' = [jpc EXCEPT !.writer = "build"]
    /\ UNCHANGED offJepa

\* _build_world_model: self.facts.append(...) for the next section
SyncAppend ==
    /\ jpc.writer = "build"
    /\ jloc.todo # << >>
    /\ heap' = [heap EXCEPT ![facts_ref] = Append(@, Head(jloc.todo))]
    /\ jloc' = [jloc EXCEPT !.todo = Tail(@)]
    /\ UNCHANGED <<facts_ref, jpc, offJepa>>

\* update_world_model returns
SyncReturn ==
    /\ jpc.writer = "build"
    /\ jloc.todo = << >>
    /\ jloc' = [jloc EXCEPT !.built = heap[facts_ref]]
    /\ jpc' = [jpc EXCEPT !.writer = "idle"]
    /\ UNCHANGED <<heap, facts_ref, offJepa>>

\* audit_proposal: `if not self.facts` returns the no-context answer
AuditCheck ==
    /\ jpc.reader = "idle"
    /\ jloc.audits < MaxAudits
    /\ LET complete == {jloc.built} \cup
                       (IF jpc.writer = "build" THEN {heap[facts_ref] \o jloc.todo} ELSE {})
       IN IF heap[facts_ref] = << >>
          THEN /\ jloc' = [jloc EXCEPT !.audits = @ + 1, !.allowed = complete,
                                       !.seen = << >>, !.result = "no_context"]
               /\ jpc' = [jpc EXCEPT !.reader = "done"]
          ELSE /\ jloc' = [jloc EXCEPT !.audits = @ + 1, !.allowed = complete,
                                       !.seen = << >>, !.result = "none"]
               /\ jpc' = [jpc EXCEPT !.reader = "embed"]
    /\ UNCHANGED <<heap, facts_ref, offJepa>>

\* audit_proposal: `for fact in self.facts` takes the list bound now
AuditStartLoop ==
    /\ jpc.reader = "embed"
    /\ jloc' = [jloc EXCEPT !.ref = facts_ref, !.idx = 0]
    /\ jpc' = [jpc EXCEPT !.reader = "iterate"]
    /\ UNCHANGED <<heap, facts_ref, offJepa>>

\* audit_proposal: the loop reads the next fact, or ends when the index has
\* reached the current length of the list
AuditNext ==
    /\ jpc.reader = "iterate"
    /\ IF jloc.idx < Len(heap[jloc.ref])
       THEN /\ jloc' = [jloc EXCEPT !.idx = @ + 1, !.seen = Append(@, heap[jloc.ref][jloc.idx + 1])]
            /\ jpc' = jpc
       ELSE /\ jloc' = [jloc EXCEPT !.result = "scored"]
            /\ jpc' = [jpc EXCEPT !.reader = "done"]
    /\ UNCHANGED <<heap, facts_ref, offJepa>>

\* audit_proposal returns
AuditReturn ==
    /\ jpc.reader = "done"
    /\ jpc' = [jpc EXCEPT !.reader = "idle"]
    /\ UNCHANGED <<heap, facts_ref, jloc, offJepa>>

JepaNext ==
    \/ SyncRebind
    \/ SyncAppend
    \/ SyncReturn
    \/ AuditCheck
    \/ AuditStartLoop
    \/ AuditNext
    \/ AuditReturn

SpecJepa == JepaInit /\ [][JepaNext]_vars

\* C10: an audit_proposal that overlaps update_world_model has scored the
\* proposal against a complete fact set, the one from before a rebuild or the
\* one after it; it has not seen an empty or partly built set.
AuditSeesCompleteFactSet ==
    jpc.reader = "done" =>
        /\ jloc.result = "scored"
        /\ jloc.seen \in jloc.allowed

-----------------------------------------------------------------------------
(* The arithmetic of audit_proposal (factual_audit_jepa.py).  Cosines are  *)
(* in hundredths, the final score in ten-thousandths (a cosine times a     *)
(* percentage).  The vector engine supplies the cosines: each fact comes   *)
(* with its cosine to the query and to the proposal, and the call with the *)
(* proposal's cosine to the ideal state of two or more anchors.            *)

MaxFacts == 4

AnchorThreshold == 50
MaxAnchors == 3
ContradictionThreshold == 40
PenaltyPerContradiction == 20
HallucinationBelow == 4000
SuspiciousBelow == 5000
FullScore == 10000

\* fact["source"] of the facts of the world model, in scan order
SourceNames == <<"a.md", "b.md", "c.md", "d.md", "e.md", "f.md">>

QueryCosines == {50, 60, 90}
ProposalCosines == {-20, 30, 40, 90}
IdealCosines == {-20, 45, 100}

WorldModels ==
    UNION {[1..n -> [qsim : QueryCosines, psim : ProposalCosines]] : n \in 0..MaxFacts}

WithSources(fs) ==
    [i \in DOMAIN fs |-> [source |-> SourceNames[i], qsim |-> fs[i].qsim, psim |-> fs[i].psim]]

\* anchors.sort(key=lambda x: x[0], reverse=True): stable, descending
RECURSIVE InsertBySim(_, _)
InsertBySim(sorted, fact) ==
    IF sorted = << >> THEN <<fact>>
    ELSE IF fact.qsim > Head(sorted).qsim THEN <<fact>> \o sorted
    ELSE <<Head(sorted)>> \o InsertBySim(Tail(sorted), fact)

RECURSIVE SortBySim(_)
SortBySim(fs) ==
    IF fs = << >> THEN << >>
    ELSE InsertBySim(SortBySim(SubSeq(fs, 1, Len(fs) - 1)), fs[Len(fs)])

\* top_anchors = [a for a in anchors[:3] if a[0] > 0.5]
TopAnchors(fs) ==
    LET anchors == SortBySim(fs)
    IN SelectSeq(SubSeq(anchors, 1, Min(MaxAnchors, Len(anchors))),
                 LAMBDA a : a.qsim > AnchorThreshold)

\* cosine(observed, ideal): the ideal state of a single anchor is that
\* anchor's vector, whatever its weight
Alignment(top, ideal_cos) == IF Len(top) = 1 THEN top[1].psim ELSE ideal_cos

\* the anchors with fact_alignment < 0.4
Contradicted(top) == SelectSeq(top, LAMBDA a : a.psim < ContradictionThreshold)

\* final_score = max(0.0, min(1.0, alignment * (1.0 - 0.2 * len(contradictions))))
FinalScore(alignment, n) ==
    Max(0, Min(FullScore, alignment * (100 - PenaltyPerContradiction * n)))

\* variant whose status ignores the contradictions
StatusIgnoringContradictions(final, n) ==
    IF final < HallucinationBelow THEN "hallucination_detected"
    ELSE IF final < SuspiciousBelow THEN "suspicious"
    ELSE "trusted"

\* the status mapping
StatusOf(final, n) ==
    IF final < HallucinationBelow THEN "hallucination_detected"
    ELSE IF final < SuspiciousBelow \/ n > 0 THEN "suspicious"
    ELSE "trusted"

\* FactualAuditJEPA.audit_proposal: the returned dict
AuditProposal(fs, ideal_cos) ==
    IF fs = << >>
    THEN [score |-> FullScore, status |-> "unverified", message |-> "no_context"]
    ELSE LET top == TopAnchors(fs)
             alignment == Alignment(top, ideal_cos)
             contradicted == Contradicted(top)
             final == FinalScore(alignment, Len(contradicted))
         IN IF top = << >>
            THEN [score |-> FullScore, status |-> "unverified", anchors |-> << >>,
                  contradictions |-> << >>, message |-> "no_context"]
            ELSE [score |-> final, alignment |-> alignment,
                  status |-> StatusOf(final, Len(contradicted)),
                  anchors |-> [i \in DOMAIN top |-> top[i].source],
                  contradictions |-> [i \in DOMAIN contradicted |-> contradicted[i].source],
                  message |-> "consistency"]

ScoreInit ==
    /\ sess = NewTrimming("s1", 1, "general", 0)
    /\ hist = << >>
    /\ now = 1
    /\ active = << >>
    /\ logs = << >>
    /\ meta = << >>
    /\ auto_save = TRUE
    /\ calls = << >>
    /\ ret = Ret("none", "s1", "none")
    /\ ParIdle
    /\ SrvIdle
    /\ JepaIdle
    /\ \E fs \in WorldModels, c \in IdealCosines :
          arg = [facts |-> WithSources(fs), ideal_cos |-> c]
    /\ result = << >>
    /\ memfs = << >>

\* result = self.factual_auditor.audit_proposal(query, proposal)
ScoreCall ==
    /\ result = << >>
    /\ result' = AuditProposal(arg.facts, arg.ideal_cos)
    /\ UNCHANGED <<arg, memfs, now, policyVars, mgrVars, parVars, srvVars, jepaVars>>

ScoreNext == ScoreCall

SpecAudit == ScoreInit /\ [][ScoreNext]_vars

HasKey(d, k) == k \in DOMAIN d

\* C15: every audit_proposal output has 0 <= score <= 1; trusted implies no
\* contradictions; hallucination_detected implies score < 0.4; and an output
\* computed from at least one anchor is hallucination_detected when score <
\* 0.4, suspicious when score >= 0.4 and (score < 0.5 or some contradiction
\* exists), and trusted otherwise.
AuditStatusMatchesScore ==
    result # << >> =>
        /\ 0 <= result.score /\ result.score <= FullScore
        /\ result.status = "trusted" =>
               HasKey(result, "contradictions") /\ result.contradictions = << >>
        /\ result.status = "hallucination_detected" => result.score < HallucinationBelow
        /\ (HasKey(result, "anchors") /\ result.anchors # << >>) =>
               result.status =
                   IF result.score < HallucinationBelow THEN "hallucination_detected"
                   ELSE IF result.score < SuspiciousBelow \/ result.contradictions # << >>
                        THEN "suspicious"
                        ELSE "trusted"

\* an audit whose score alone would be trusted is suspicious for a contradiction
SuspiciousByContradiction ==
    /\ result # << >>
    /\ result.status = "suspicious"
    /\ result.score >= SuspiciousBelow
    /\ result.contradictions # << >>

\* C27: whenever audit_proposal reports at least one contradiction, its
\* status is suspicious or hallucination_detected and its score is at most
\* alignment x 0.8, the score being alignment x (1 - 0.2 x number of
\* contradictions) clamped to [0, 1].
ContradictionLowersScore ==
    (result # << >> /\ HasKey(result, "contradictions") /\ result.contradictions # << >>) =>
        /\ result.status \in {"suspicious", "hallucination_detected"}
        /\ result.score =
               Max(0, Min(FullScore, result.alignment *
                                     (100 - PenaltyPerContradiction * Len(result.contradictions))))
        /\ result.score <= result.alignment * (100 - PenaltyPerContradiction)

\* the facts of the call whose cosine to the query is above 0.5
Clearing == {i \in DOMAIN arg.facts : arg.facts[i].qsim > AnchorThreshold}

\* the positions in the world model of the sources named by a list
NamedBy(names) == {i \in DOMAIN arg.facts : \E k \in DOMAIN names : names[k] = arg.facts[i].source}

\* C16: audit_proposal returns {score: 1.0, status: unverified, anchors: [],
\* contradictions: []} whenever no fact has cosine > 0.5 with the query,
\* including when there are no facts at all; otherwise its anchors are the at
\* most 3 facts with the highest cosine to the query, each above 0.5, and
\* every contradiction names one of those anchors.
AuditAnchorsAreTopFacts ==
    result # << >> =>
        IF Clearing = {}
        THEN /\ result.score = FullScore
             /\ result.status = "unverified"
             /\ HasKey(result, "anchors") /\ result.anchors = << >>
             /\ HasKey(result, "contradictions") /\ result.contradictions = << >>
        ELSE LET A == NamedBy(result.anchors)
             IN /\ Len(result.anchors) = Cardinality(A)
                /\ Cardinality(A) = Min(MaxAnchors, Cardinality(Clearing))
                /\ A \subseteq Clearing
                /\ \A i \in A, j \in Clearing \ A : arg.facts[j].qsim <= arg.facts[i].qsim
                /\ \A k \in DOMAIN result.anchors \ {1} :
                       arg.facts[CHOOSE i \in A : arg.facts[i].source = result.anchors[k]].qsim
                       <= arg.facts[CHOOSE i \in A : arg.facts[i].source = result.anchors[k - 1]].qsim
                /\ NamedBy(result.contradictions) \subseteq A

-----------------------------------------------------------------------------
(* memory_tool (core/storage/memory_handler.py, v6.py _handle_memory_tool). *)
(* A path string is the sequence of its components between separators; an   *)
(* absolute path starts with the component "/".  memfs holds the files      *)
(* (normalised path -> content), the directories and the number of calls.   *)

MaxMemCalls == 2

\* self.memory_dir, relative to the working directory
MemoryDir == <<"data", "memories">>

\* session_id absent or empty: `self.per_session and session_id` is falsy
NoSession == << >>

MemFilePaths == { <<"notes.md">>, <<"..", "keys">>, <<"..">>, <<"/", "etc", "passwd">> }
MemSessionArgs == { NoSession, <<"s1">>, <<"..">>, <<"..", "evil">> }
MemContents == {"c1"}

\* os.path.basename
OsBasename(p) == IF p = << >> \/ p[Len(p)] = "/" THEN "" ELSE p[Len(p)]

\* os.path.join(base, p)
OsJoin(base, p) == IF p # << >> /\ p[1] = "/" THEN p ELSE base \o p

\* the directory entry a path names: "" and "." dropped, ".." resolved
RECURSIVE NormInto(_, _)
NormInto(stack, p) ==
    IF p = << >> THEN stack
    ELSE LET c == Head(p)
             top == IF stack = << >> THEN "" ELSE stack[Len(stack)]
         IN IF c \in {"", "."} THEN NormInto(stack, Tail(p))
            ELSE IF c # ".." THEN NormInto(Append(stack, c), Tail(p))
            ELSE IF top = "/" THEN NormInto(stack, Tail(p))
            ELSE IF top \in {"", ".."} THEN NormInto(Append(stack, ".."), Tail(p))
            ELSE NormInto(SubSeq(stack, 1, Len(stack) - 1), Tail(p))

NormPath(p) == NormInto(<< >>, p)

Ancestors(p) == {SubSeq(p, 1, k) : k \in 0..Len(p)}

\* os.makedirs(base_dir, exist_ok=True): raises when a file is in the way
MakeDirs(fs, base) ==
    LET need == Ancestors(NormPath(base))
    IN IF need \cap DOMAIN fs.files # {} THEN [fs |-> fs, raised |-> TRUE, made |-> {}]
       ELSE [fs |-> [fs EXCEPT !.dirs = @ \cup need], raised |-> FALSE,
             made |-> need \ fs.dirs]

\* MemoryHandler._get_storage_path
GetStoragePath(fs, file_path, sid) ==
    LET base == IF sid # NoSession THEN OsJoin(MemoryDir, sid) ELSE MemoryDir
        mk == IF sid # NoSession THEN MakeDirs(fs, base)
              ELSE [fs |-> fs, raised |-> FALSE, made |-> {}]
    IN [fs |-> mk.fs, raised |-> mk.raised, made |-> mk.made,
        path |-> NormPath(OsJoin(base, <<OsBasename(file_path)>>))]

MemOutcome(fs, kind, text, touched, made) ==
    [fs |-> fs, result |-> [kind |-> kind, text |-> text, touched |-> touched, made |-> made]]

\* MemoryHandler.create (open(path, 'w') fails on a directory)
MemCreate(fs, file_path, content, sid) ==
    LET g == GetStoragePath(fs, file_path, sid)
    IN IF g.raised THEN MemOutcome(g.fs, "exception", "", {}, g.made)
       ELSE IF g.path \in g.fs.dirs THEN MemOutcome(g.fs, "error", "", {}, g.made)
       ELSE MemOutcome([g.fs EXCEPT !.files = Put(@, g.path, content)],
                       "saved", "", {g.path}, g.made)

\* MemoryHandler.read
MemRead(fs, file_path, sid) ==
    LET g == GetStoragePath(fs, file_path, sid)
    IN IF g.raised THEN MemOutcome(g.fs, "exception", "", {}, g.made)
       ELSE IF g.path \in DOMAIN g.fs.files
            THEN MemOutcome(g.fs, "content", g.fs.files[g.path], {g.path}, g.made)
       ELSE IF g.path \in g.fs.dirs THEN MemOutcome(g.fs, "error", "", {}, g.made)
       ELSE MemOutcome(g.fs, "not_found", "", {}, g.made)

\* MemoryHandler.delete (os.remove fails on a directory)
MemDelete(fs, file_path, sid) ==
    LET g == GetStoragePath(fs, file_path, sid)
    IN IF g.raised THEN MemOutcome(g.fs, "exception", "", {}, g.made)
       ELSE IF g.path \in DOMAIN g.fs.files
            THEN MemOutcome([g.fs EXCEPT !.files = Drop(@, g.path)],
                            "deleted", "", {g.path}, g.made)
       ELSE IF g.path \in g.fs.dirs THEN MemOutcome(g.fs, "error", "", {}, g.made)
       ELSE MemOutcome(g.fs, "not_found", "", {}, g.made)

\* MemoryHandler.list_memories: the files directly under the base directory
MemList(fs, sid) ==
    LET base == NormPath(IF sid # NoSession THEN OsJoin(MemoryDir, sid) ELSE MemoryDir)
        names == IF base \in fs.dirs
                 THEN {f[Len(f)] : f \in {g \in DOMAIN fs.files :
                                              SubSeq(g, 1, Len(g) - 1) = base}}
                 ELSE {}
    IN MemOutcome(fs, "listing", names, {}, {})

MemRequest(cmd, file_path, content, sid) ==
    [command |-> cmd, file_path |-> file_path, content |-> content, session_id |-> sid]

MemoryInit ==
    /\ sess = NewTrimming("s1", 1, "general", 0)
    /\ hist = << >>
    /\ now = 1
    /\ active = << >>
    /\ logs = << >>
    /\ meta = << >>
    /\ auto_save = TRUE
    /\ calls = << >>
    /\ ret = Ret("none", "s1", "none")
    /\ ParIdle
    /\ SrvIdle
    /\ JepaIdle
    /\ arg = << >>
    /\ result = << >>
    /\ memfs = [files |-> [f \in {<<"data", "keys">>} |-> "k0"],
                dirs |-> {<< >>, <<"..">>, <<"data">>, MemoryDir},
                n |-> 0]

\* one tools/call of memory_tool: the outcome o of the command on request r
MemAnswer(o, r) ==
    /\ memfs.n < MaxMemCalls
    /\ memfs' = [o.fs EXCEPT !.n = @ + 1]
    /\ arg' = r
    /\ result' = o.result
    /\ UNCHANGED <<now, policyVars, mgrVars, parVars, srvVars, jepaVars>>

MemToolCreate ==
    \E fp \in MemFilePaths, c \in MemContents, sid \in MemSessionArgs :
        MemAnswer(MemCreate(memfs, fp, c, sid), MemRequest("create", fp, c, sid))

MemToolRead ==
    \E fp \in MemFilePaths, sid \in MemSessionArgs :
        MemAnswer(MemRead(memfs, fp, sid), MemRequest("read", fp, "", sid))

MemToolDelete ==
    \E fp \in MemFilePaths, sid \in MemSessionArgs :
        MemAnswer(MemDelete(memfs, fp, sid), MemRequest("delete", fp, "", sid))

MemToolList ==
    \E sid \in MemSessionArgs :
        MemAnswer(MemList(memfs, sid), MemRequest("list", << >>, "", sid))

MemoryNext == MemToolCreate \/ MemToolRead \/ MemToolDelete \/ MemToolList

SpecMemory == MemoryInit /\ [][MemoryNext]_vars

\* a file directly in the memories directory or in the sub-directory of session sid
InsideMemories(p, sid) ==
    \/ Len(p) = Len(MemoryDir) + 1 /\ SubSeq(p, 1, Len(MemoryDir)) = MemoryDir
    \/ /\ Len(sid) = 1
       /\ sid[1] \notin {"..", ".", "", "/"}
       /\ Len(p) = Len(MemoryDir) + 2
       /\ SubSeq(p, 1, Len(MemoryDir) + 1) = MemoryDir \o sid

\* the request names something outside: a separator or a parent reference
AttemptsTraversal(r) ==
    \/ Len(r.file_path) > 1
    \/ r.file_path = <<"..">>
    \/ Len(r.session_id) > 1
    \/ r.session_id = <<"..">>

\* C17: for every memory_tool command, file_path and session_id, the file
\* read, written or deleted lies inside the memories directory (directly or
\* in that session's sub-directory); a request that attempts path traversal
\* is rejected and touches no file or directory.
MemoryToolStaysInside ==
    result # << >> =>
        /\ \A p \in result.touched : InsideMemories(p, arg.session_id)
        /\ AttemptsTraversal(arg) =>
               /\ result.kind \in {"error", "exception", "not_found"}
               /\ result.touched = {}
               /\ result.made = {}

-----------------------------------------------------------------------------
(* _optimize_session_history against a token budget.  The history is what  *)
(* get_recent_turns(5) hands over: the turns a session holds, oldest       *)
(* first.                                                                  *)

MaxHist == 3
MaxAvail == 8

ToonResponses == {<<"r1">>, <<"r1", "r2">>}

ToonTurn(i, r) == [turn_id |-> i, timestamp |-> i, query |-> <<"q">>, response |-> r]

ToonHistories ==
    UNION {{[i \in 1..n |-> ToonTurn(i, rs[i])] : rs \in [1..n -> ToonResponses]} : n \in 0..MaxHist}

ToonInit ==
    /\ sess = NewTrimming("s1", 1, "general", 0)
    /\ hist = << >>
    /\ now = 1
    /\ active = << >>
    /\ logs = << >>
    /\ meta = << >>
    /\ auto_save = TRUE
    /\ calls = << >>
    /\ ret = Ret("none", "s1", "none")
    /\ ParIdle
    /\ SrvIdle
    /\ JepaIdle
    /\ arg \in [history : ToonHistories, available : 0..MaxAvail]
    /\ result = << >>
    /\ memfs = << >>

\* optimized_history = self._optimize_session_history(session_history)
OptimizeCall ==
    /\ result = << >>
    /\ result' = [history |-> OptimizeHistoryWithin(arg.history, arg.available)]
    /\ UNCHANGED <<arg, memfs, now, policyVars, mgrVars, parVars, srvVars, jepaVars>>

ToonNext == OptimizeCall

SpecToon == ToonInit /\ [][ToonNext]_vars

\* a returned turn is the given turn, its response possibly shortened
SameTurn(a, b) == a.turn_id = b.turn_id /\ a.timestamp = b.timestamp /\ a.query = b.query

RECURSIVE EstimatedTokens(_)
EstimatedTokens(secs) ==
    IF secs = << >> THEN 0 ELSE Len(Head(secs).content) + EstimatedTokens(Tail(secs))

\* C24: _optimize_session_history returns a sub-sequence of distinct turns
\* of the history it is given, and when the budget cannot hold the whole
\* history the turns it keeps are the most recent ones.
OptimizeKeepsMostRecentTurns ==
    result # << >> =>
        LET h == arg.history
            out == result.history
        IN /\ \E f \in [DOMAIN out -> DOMAIN h] :
                 /\ \A j, k \in DOMAIN out : j < k => f[j] < f[k]
                 /\ \A j \in DOMAIN out : SameTurn(out[j], h[f[j]])
           /\ EstimatedTokens(HistorySections(h)) > arg.available =>
                 \A j \in DOMAIN out : SameTurn(out[j], h[Len(h) - Len(out) + j])

-----------------------------------------------------------------------------
(* validate_response.  Similarities are Python floats (IEEE-754 binary64,  *)
(* round to nearest, ties to even).  A float is zero or a record [m, e]:   *)
(* m is the 53-bit significand, most significant bit first, and the value  *)
(* is m * 2^e.  Every operation rounds the exact result once, as the       *)
(* hardware does.                                                          *)

MaxEvidence == 3

Precision == 53
GuardBits == 60

FloatZero == [m |-> << >>, e |-> 0]

Zeros(k) == [i \in 1..k |-> 0]

\* the binary digits of a natural number, most significant first
RECURSIVE IntBits(_)
IntBits(n) == IF n = 0 THEN << >> ELSE Append(IntBits(n \div 2), n % 2)

\* the bit string without its leading zeros
StripZeros(bits) ==
    LET I == {i \in DOMAIN bits : bits[i] = 1}
    IN IF I = {} THEN << >>
       ELSE SubSeq(bits, CHOOSE i \in I : \A j \in I : i <= j, Len(bits))

\* the strings are worked on in blocks of BlockBits digits
BlockBits == 8

\* the number a short bit string denotes, and the w-digit string of a number
RECURSIVE BitsVal(_)
BitsVal(bits) ==
    IF bits = << >> THEN 0 ELSE 2 * BitsVal(SubSeq(bits, 1, Len(bits) - 1)) + bits[Len(bits)]

ToBits(v, w) == [i \in 1..w |-> (v \div 2^(w - i)) % 2]

\* schoolbook division of the bit string from position p on by a small
\* natural number n, rem being the remainder carried in
RECURSIVE LongDivFrom(_, _, _, _)
LongDivFrom(bits, n, p, rem) ==
    IF p > Len(bits) THEN [q |-> << >>, r |-> rem]
    ELSE LET w == Min(BlockBits, Len(bits) - p + 1)
             x == rem * 2^w + BitsVal(SubSeq(bits, p, p + w - 1))
             rest == LongDivFrom(bits, n, p + w, x % n)
         IN [q |-> ToBits(x \div n, w) \o rest.q, r |-> rest.r]

LongDiv(bits, n) == LongDivFrom(bits, n, 1, 0)

\* a + b for bit strings of one length: the digits up to position p, with a
\* carry coming in from the right
RECURSIVE AddUpTo(_, _, _, _)
AddUpTo(a, b, p, carry) ==
    IF p = 0 THEN (IF carry = 1 THEN <<1>> ELSE << >>)
    ELSE LET w == Min(BlockBits, p)
             s == BitsVal(SubSeq(a, p - w + 1, p)) + BitsVal(SubSeq(b, p - w + 1, p)) + carry
         IN AddUpTo(a, b, p - w, s \div 2^w) \o ToBits(s % 2^w, w)

AddBits(a, b) == AddUpTo(a, b, Len(a), 0)

\* round bits * 2^e (leading digit 1; sticky: a non-zero part lies below the
\* last digit) to the nearest float, ties to even
RoundToFloat(bits, e, sticky) ==
    IF bits = << >> THEN FloatZero
    ELSE IF Len(bits) <= Precision
    THEN [m |-> bits \o Zeros(Precision - Len(bits)), e |-> e - (Precision - Len(bits))]
    ELSE LET top == SubSeq(bits, 1, Precision)
             guard == bits[Precision + 1]
             below == sticky \/ \E i \in (Precision + 2)..Len(bits) : bits[i] = 1
             up == guard = 1 /\ (below \/ top[Precision] = 1)
             e1 == e + (Len(bits) - Precision)
             inc == AddBits(top, Zeros(Precision - 1) \o <<1>>)
         IN IF ~up THEN [m |-> top, e |-> e1]
            ELSE IF Len(inc) = Precision THEN [m |-> inc, e |-> e1]
            ELSE [m |-> SubSeq(inc, 1, Precision), e |-> e1 + 1]

\* i / u for Python ints (true division is correctly rounded)
IntDiv(i, u) ==
    LET d == LongDiv(IntBits(i) \o Zeros(GuardBits), u)
    IN RoundToFloat(StripZeros(d.q), -GuardBits, d.r # 0)

\* x / n for a float x and a Python int n
FloatDivInt(x, n) ==
    IF x = FloatZero THEN FloatZero
    ELSE LET d == LongDiv(x.m \o Zeros(GuardBits), n)
         IN RoundToFloat(StripZeros(d.q), x.e - GuardBits, d.r # 0)

\* x + y for floats
FloatAdd(x, y) ==
    IF x = FloatZero THEN y
    ELSE IF y = FloatZero THEN x
    ELSE LET hi == IF x.e >= y.e THEN x ELSE y
             lo == IF x.e >= y.e THEN y ELSE x
             d == hi.e - lo.e
             a == hi.m \o Zeros(d)
             b == Zeros(d) \o lo.m
         IN RoundToFloat(StripZeros(AddBits(a, b)), lo.e, FALSE)

\* the first position where two bit strings of one length differ (0: none)
FirstDiff(a, b) ==
    LET D == {i \in DOMAIN a : a[i] # b[i]}
    IN IF D = {} THEN 0 ELSE CHOOSE i \in D : \A j \in D : i <= j

\* x > y for floats that are zero or positive
FloatGreater(x, y) ==
    IF x = FloatZero THEN FALSE
    ELSE IF y = FloatZero THEN TRUE
    ELSE IF x.e # y.e THEN x.e > y.e
    ELSE LET i == FirstDiff(x.m, y.m) IN i # 0 /\ x.m[i] = 1

\* the literal 0.1
PassAbove == IntDiv(1, 10)

\* str.lower on the words of the model
Lower(w) == IF w = "The" THEN "the" ELSE w

\* set(text.lower().split())
WordSet(text) == {Lower(text[i]) : i \in DOMAIN text}

\* the similarity one found chunk adds to total_score
JaccardAdded(candidate, chunk) ==
    LET cw == WordSet(candidate)
        kw == WordSet(chunk.text)
    IN IF candidate # << >> /\ cw # {} /\ kw # {}
       THEN IntDiv(Cardinality(cw \cap kw), Cardinality(cw \cup kw))
       ELSE FloatZero

\* the loop over evidence_ids: found_evidence and total_score
RECURSIVE ScanEvidence(_, _, _, _, _)
ScanEvidence(cs, candidate, eids, found, total) ==
    IF eids = << >> THEN [found |-> found, total |-> total]
    ELSE LET c == ChunkById(cs, Head(eids))
         IN IF c = << >> THEN ScanEvidence(cs, candidate, Tail(eids), found, total)
            ELSE ScanEvidence(cs, candidate, Tail(eids), found \o c,
                              FloatAdd(total, JaccardAdded(candidate, c[1])))

\* MCPServerV6._validate_response: the _meta of the result
ValidateResponse(cs, candidate, eids) ==
    LET sc == ScanEvidence(cs, candidate, eids, << >>, FloatZero)
        avg == IF sc.found # << >> THEN FloatDivInt(sc.total, Len(sc.found)) ELSE FloatZero
    IN [evidence_found |-> Len(sc.found),
        total_evidence |-> Len(eids),
        avg_similarity |-> avg,
        validation_passed |-> Len(sc.found) > 0 /\ FloatGreater(avg, PassAbove)]

ChunkTen ==
    [chunk_id |-> "c1", file |-> "words.md",
     text |-> <<"w1", "w2", "w3", "w4", "w5", "w6", "w7", "w8", "w9", "w10">>]

ChunkLogin ==
    [chunk_id |-> "c2", file |-> "auth.md", text |-> <<"login", "function", "checks", "hash">>]

ValidateChunks == <<ChunkTen, ChunkLogin>>

Candidates ==
    {<< >>, <<"w1">>, <<"w1", "w2">>,
     <<"The", "login", "function", "checks", "the", "password", "hash.">>}

EvidenceIds == UNION {[1..n -> {"c1", "c2", "c9"}] : n \in 0..MaxEvidence}

ValidateInit ==
    /\ sess = NewTrimming("s1", 1, "general", 0)
    /\ hist = << >>
    /\ now = 1
    /\ active = << >>
    /\ logs = << >>
    /\ meta = << >>
    /\ auto_save = TRUE
    /\ calls = << >>
    /\ ret = Ret("none", "s1", "none")
    /\ ParIdle
    /\ SrvIdle
    /\ JepaIdle
    /\ arg \in [candidate_text : Candidates, evidence_ids : EvidenceIds]
    /\ result = << >>
    /\ memfs = << >>

\* tools/call validate_response
ValidateCall ==
    /\ result = << >>
    /\ result' = ValidateResponse(ValidateChunks, arg.candidate_text, arg.evidence_ids)
    /\ UNCHANGED <<arg, memfs, now, policyVars, mgrVars, parVars, srvVars, jepaVars>>

ValidateNext == ValidateCall

SpecValidate == ValidateInit /\ [][ValidateNext]_vars

\* the resolved chunks of the call, one per supplied id that resolves
Resolved(eids) == Flatten([i \in DOMAIN eids |-> ChunkById(ValidateChunks, eids[i])])

\* word-set Jaccard similarity as the fraction [num, den]
Jaccard(candidate, chunk) ==
    LET cw == WordSet(candidate)
        kw == WordSet(chunk.text)
    IN IF cw \cup kw = {} THEN [num |-> 0, den |-> 1]
       ELSE [num |-> Cardinality(cw \cap kw), den |-> Cardinality(cw \cup kw)]

\* the exact sum of the similarities, as a fraction
RECURSIVE JaccardSum(_, _)
JaccardSum(candidate, cs) ==
    IF cs = << >> THEN [num |-> 0, den |-> 1]
    ELSE LET j == Jaccard(candidate, Head(cs))
             rest == JaccardSum(candidate, Tail(cs))
         IN [num |-> j.num * rest.den + rest.num * j.den, den |-> j.den * rest.den]

\* the mean similarity over the resolved chunks exceeds 0.1
MeanAboveTenth(candidate, cs) ==
    cs # << >> /\ 10 * JaccardSum(candidate, cs).num > Len(cs) * JaccardSum(candidate, cs).den

\* C25: validate_response reports evidence_found = the number of supplied
\* ids that resolve to a chunk and total_evidence = the number supplied, and
\* validation_passed holds if and only if evidence_found >= 1 and the mean
\* word-set Jaccard similarity between the candidate and the resolved chunks
\* is above 0.1; with no resolvable evidence it never passes.
ValidationPassesIffSimilar ==
    result # << >> =>
        LET cs == Resolved(arg.evidence_ids) IN
        /\ result.evidence_found = Len(cs)
        /\ result.total_evidence = Len(arg.evidence_ids)
        /\ result.validation_passed <=>
               (result.evidence_found >= 1 /\ MeanAboveTenth(arg.candidate_text, cs))
        /\ cs = << >> => ~result.validation_passed

-----------------------------------------------------------------------------
(* The stdio loop of main() and handle_request.  A line of stdin is blank, *)
(* text that json.loads rejects, or the JSON text of a request object;     *)
(* stdout is the sequence of responses written, each tagged with the       *)
(* number of the line that caused it.                                      *)

MaxInput == 3

MethodNotFound == -32601

BlankLine == [kind |-> "blank", method |-> "", id |-> 0]
MalformedLine == [kind |-> "malformed", method |-> "", id |-> 0]
RequestLine(method, id) == [kind |-> "request", method |-> method, id |-> id]

KnownMethods == {"initialize", "tools/list", "tools/call"}

InputLines ==
    {BlankLine, MalformedLine} \cup
    {RequestLine(mt, 1) : mt \in {"initialize", "tools/call", "resources/list"}}

\* MCPServerV6.handle_request: the JSON-RPC envelope of the answer
HandleRequest(request) ==
    IF request.method \in KnownMethods
    THEN [jsonrpc |-> "2.0", id |-> request.id, member |-> "result",
          code |-> 0, payload |-> request.method]
    ELSE [jsonrpc |-> "2.0", id |-> request.id, member |-> "error",
          code |-> MethodNotFound, payload |-> "Method not found"]

\* the body of the while loop of main() for one line: the responses written
ServeOne(line) ==
    IF line.kind = "blank" THEN << >>
    ELSE IF line.kind = "malformed" THEN << >>
    ELSE <<HandleRequest(line)>>

StdioInit ==
    /\ sess = NewTrimming("s1", 1, "general", 0)
    /\ hist = << >>
    /\ now = 1
    /\ active = << >>
    /\ logs = << >>
    /\ meta = << >>
    /\ auto_save = TRUE
    /\ calls = << >>
    /\ ret = Ret("none", "s1", "none")
    /\ ParIdle
    /\ SrvIdle
    /\ JepaIdle
    /\ arg \in UNION {[1..n -> InputLines] : n \in 0..MaxInput}
    /\ result = [read |-> 0, stdout |-> << >>, running |-> TRUE]
    /\ memfs = << >>

offStdio == <<arg, memfs, now, policyVars, mgrVars, parVars, srvVars, jepaVars>>

\* one turn of the loop on the next line of stdin
ServeLine ==
    /\ result.running
    /\ result.read < Len(arg)
    /\ LET i == result.read + 1
           written == ServeOne(arg[i])
       IN result' = [result EXCEPT
                        !.read = i,
                        !.stdout = @ \o [k \in DOMAIN written |-> [line |-> i, msg |-> written[k]]]]
    /\ UNCHANGED offStdio

\* readline returns '': stdin is closed and the loop ends
StdinClosed ==
    /\ result.running
    /\ result.read = Len(arg)
    /\ result' = [result EXCEPT !.running = FALSE]
    /\ UNCHANGED offStdio

StdioNext == ServeLine \/ StdinClosed

SpecStdio == StdioInit /\ [][StdioNext]_vars

\* the responses written for line i
AnswersTo(i) == SelectSeq(result.stdout, LAMBDA o : o.line = i)

\* {_meta: {error: true, reason: invalid_request}, content: [message]}
IsInvalidRequestError(msg) == msg.member = "result" /\ msg.payload = "invalid_request"

\* the line is malformed JSON or a request with an unknown method
MustBeRejected(line) ==
    \/ line.kind = "malformed"
    \/ line.kind = "request" /\ line.method \notin KnownMethods

\* C26: every input line that is malformed JSON and every request with an
\* unknown method is answered with exactly one error response of kind
\* invalid_request, and the server keeps serving the following lines.
BadLinesGetInvalidRequest ==
    /\ \A i \in 1..result.read :
          MustBeRejected(arg[i]) =>
              /\ Len(AnswersTo(i)) = 1
              /\ IsInvalidRequestError(AnswersTo(i)[1].msg)
    /\ result.running \/ result.read = Len(arg)

-----------------------------------------------------------------------------
(* Restart of a session: close_session followed by load_session *)

\* the queries and responses of the turns held verbatim, in order
VerbatimTurns(s) == [i \in DOMAIN s.turns |-> <<s.turns[i].query, s.turns[i].response>>]

\* the session sid as load_session returns it after close_session(sid)
Restarted(sid) == MgrLoadSession(MgrCloseSession(M, sid, now), sid, now + 1).active

\* C31: restart equivalence: for either policy, any policy parameters given
\* at creation and either auto_save setting, close_session(s) followed by
\* load_session(s) yields a session with the same policy, the same
\* parameters, the same verbatim turns and the same summarised count as the
\* session had just before it was closed.
RestartPreservesSession ==
    \A sid \in DOMAIN active :
        /\ sid \in DOMAIN Restarted(sid)
        /\ LET before == active[sid]
               after == Restarted(sid)[sid]
           IN /\ after.strategy = before.strategy
              /\ after.max_turns = before.max_turns
              /\ after.keep_last_n_turns = before.keep_last_n_turns
              /\ after.context_limit = before.context_limit
              /\ VerbatimTurns(after) = VerbatimTurns(before)
              /\ after.summary_turn_count = before.summary_turn_count

-----------------------------------------------------------------------------
(* create_session on a session id that already exists *)

\* the session is in memory or has files in the session store
ExistsSomewhere(sid) ==
    sid \in DOMAIN active \/ Str(sid) \in DOMAIN meta \/ Str(sid) \in DOMAIN logs

\* C32: create_session with a session_id that already exists (in memory, or
\* only on disk) returns the existing session and does not discard or reset
\* it: its turns, its policy, its created_at and its sidecar turn_count are
\* unchanged, and the in-memory session still agrees with its on-disk log.
CreateOnExistingKeepsSession ==
    [][(now' # now /\ ret'.op = "create_session" /\ ExistsSomewhere(ret'.sid)) =>
         LET sid == ret'.sid
             f == Str(sid)
         IN /\ sid \in DOMAIN active'
            /\ logs' = logs
            /\ sid \in DOMAIN active => active'[sid] = active[sid]
            /\ f \in DOMAIN meta =>
                   /\ f \in DOMAIN meta'
                   /\ meta'[f].strategy = meta[f].strategy
                   /\ meta'[f].created_at = meta[f].created_at
                   /\ meta'[f].turn_count = meta[f].turn_count
                   /\ active'[sid].strategy = meta[f].strategy
            /\ (sid \notin DOMAIN active /\ f \in DOMAIN logs) =>
                   InMemoryTurnCount(active'[sid]) = Len(logs[f])]_vars

-----------------------------------------------------------------------------
(* SpecLong: get_context on sessions that already hold turns *)

MaxHeld == 6

\* the session store and manager after create_session("s1") and k earlier
\* turns that name no indexed entity
RECURSIVE AfterTurns(_)
AfterTurns(k) ==
    IF k = 0
    THEN MgrCreateSession([active |-> << >>, logs |-> << >>, meta |-> << >>],
                          "s1", "general", "trimming", DefaultKwargs, 0)
    ELSE MgrAddTurnToSession(AfterTurns(k - 1), "s1", <<"show", "readme">>,
                             FixedAbstainText, MetaEnt(<< >>), 0, TRUE)

LongInit ==
    /\ sess = NewTrimming("s1", 1, "general", 0)
    /\ hist = << >>
    /\ now = 1
    /\ \E k \in 0..MaxHeld :
          /\ active = AfterTurns(k).active
          /\ logs = AfterTurns(k).logs
          /\ meta = AfterTurns(k).meta
    /\ auto_save = TRUE
    /\ calls = << >>
    /\ ret = Ret("none", "s1", "none")
    /\ ParIdle
    /\ JepaIdle
    /\ PureIdle
    /\ cur_sid = PyNone
    /\ cur_path = ""
    /\ vector_engine = "ok"
    /\ chunks \in Snapshots
    /\ code_index \in CodeIndexes
    /\ tracker_index = code_index
    /\ mentions = << >>
    /\ resp = BaseResp
    /\ call = NoCall

LongNext == CallGetContext

SpecLong == LongInit /\ [][LongNext]_vars

\* C33: for every get_context call with a session, the turn_id stored in the
\* EntityMentions recorded by that call equals the turn_id of the turn that
\* the same call appends to the session, for sessions of any length.
MentionTurnIdIsTurnId ==
    [][(/\ IsGetContextStep
        /\ call'.session_id # PyNone
        /\ call'.session_id \in DOMAIN active'
        /\ resp'.kind = "ok") =>
           LET turns == active'[call'.session_id].turns
           IN \A i \in (Len(mentions) + 1)..Len(mentions') :
                  mentions'[i].turn_id = turns[Len(turns)].turn_id]_vars

-----------------------------------------------------------------------------
(* SpecIndex: index_code between get_context calls *)

\* the functions index_directory finds in the directory it is given
FoundFunctions == {<< >>, <<FuncLogin>>, <<FuncLogin, FuncReset>>}

\* self.functions[func_key] = func_info for every function found
IndexDirectory(index, found) ==
    index \o SelectSeq(found, LAMBDA e : e \notin SeqRange(index))

\* _index_code: only the indexer's dicts are updated
ToolIndexCode(index, found) ==
    [code_index |-> IndexDirectory(index, found),
     resp |-> OkResp(<<"Code Indexing Complete">>)]

IndexInit ==
    /\ sess = NewTrimming("s1", 1, "general", 0)
    /\ hist = << >>
    /\ now = 1
    /\ active = << >>
    /\ logs = << >>
    /\ meta = << >>
    /\ auto_save = TRUE
    /\ calls = << >>
    /\ ret = Ret("none", "s1", "none")
    /\ ParIdle
    /\ JepaIdle
    /\ PureIdle
    /\ cur_sid = PyNone
    /\ cur_path = ""
    /\ vector_engine = "ok"
    /\ chunks \in Snapshots
    /\ code_index \in {<< >>, <<FuncLogin>>}
    /\ tracker_index = code_index
    /\ mentions = << >>
    /\ resp = BaseResp
    /\ call = NoCall

CallIndexCode ==
    /\ now <= MaxCalls
    /\ now' = now + 1
    /\ \E found \in FoundFunctions :
          /\ code_index' = ToolIndexCode(code_index, found).code_index
          /\ resp' = ToolIndexCode(code_index, found).resp
    /\ call' = Call("index_code", PyNone, << >>, DefaultTopK, DefaultMinScore, "/w/s1", "")
    /\ UNCHANGED <<active, logs, meta, mentions, cur_sid, cur_path, vector_engine, chunks,
                   tracker_index, offSrv>>

IndexNext ==
    \/ CallIndexCode
    \/ CallCreateSession
    \/ CallGetContext

SpecIndex == IndexInit /\ [][IndexNext]_vars

\* C34: within a get_context call, entity detection by the tracker and
\* reference resolution by the resolver read the same revision of the entity
\* index: after an index_code call completes, every later get_context call
\* detects mentions of the newly indexed entities.
DetectionReadsCurrentIndex ==
    [][(/\ IsGetContextStep
        /\ call'.session_id # PyNone
        /\ call'.session_id \in DOMAIN active'
        /\ resp'.kind = "ok") =>
           /\ tracker_index = code_index
           /\ \A i \in DOMAIN code_index :
                 TextContains(call'.query \o resp'.text, code_index[i].name)
                     => code_index[i].name \in SeqRange(resp'.entities_mentioned)]_vars

-----------------------------------------------------------------------------
(* Listing sessions *)

\* SessionManager.list_sessions: the ids of the summaries it returns
MgrListSessions(m) == {f \in StorageListSessions(m) : f \in DOMAIN m.meta}

\* SessionManager.get_session_summary returns a summary (not None)
MgrGetSessionSummary(m, sid) == sid \in DOMAIN m.active \/ LoadMetadata(m, sid).found

\* C36: from the moment create_session(s) succeeds until delete_session(s),
\* list_sessions includes s and get_session_summary(s) succeeds, also before
\* the first turn is added to s.
CreatedSessionsAreListed ==
    \A sid \in MgrSessionIds :
        (sid \in DOMAIN active \/ Str(sid) \in DOMAIN meta) =>
            /\ Str(sid) \in MgrListSessions(M)
            /\ MgrGetSessionSummary(M, sid)

-----------------------------------------------------------------------------
(* SpecStore: memory_tool as a store of named memories per session *)

MaxStoreCalls == 3

StoreNames == { <<"notes.md">>, <<"s1">> }
StoreSessions == { NoSession, <<"s1">>, <<".">> }
StoreContents == {"c1", "c2"}

\* _handle_memory_tool: create and update both go to MemoryHandler.create
HandleMemoryTool(fs, r) ==
    IF r.command \in {"create", "update"}
    THEN MemCreate(fs, r.file_path, r.content, r.session_id)
    ELSE IF r.command = "read" THEN MemRead(fs, r.file_path, r.session_id)
    ELSE IF r.command = "delete" THEN MemDelete(fs, r.file_path, r.session_id)
    ELSE IF r.command = "list" THEN MemList(fs, r.session_id)
    ELSE MemOutcome(fs, "invalid", "", {}, {})

\* the _meta of the response: {'error': True} only from the except branch,
\* no _meta at all otherwise ("absent" for a missing key)
MemoryToolMeta(res) ==
    [error |-> res.kind = "exception", kind |-> "absent"]

StoreInit ==
    /\ sess = NewTrimming("s1", 1, "general", 0)
    /\ hist = << >>
    /\ now = 1
    /\ active = << >>
    /\ logs = << >>
    /\ meta = << >>
    /\ auto_save = TRUE
    /\ calls = << >>
    /\ ret = Ret("none", "s1", "none")
    /\ ParIdle
    /\ SrvIdle
    /\ JepaIdle
    /\ arg = << >>
    /\ result = << >>
    /\ memfs = [files |-> << >>,
                dirs |-> {<< >>, <<"data">>, MemoryDir},
                n |-> 0]

StoreAnswer(r) ==
    /\ memfs.n < MaxStoreCalls
    /\ memfs' = [HandleMemoryTool(memfs, r).fs EXCEPT !.n = @ + 1]
    /\ arg' = r
    /\ result' = HandleMemoryTool(memfs, r).result
    /\ UNCHANGED <<now, policyVars, mgrVars, parVars, srvVars, jepaVars>>

StoreWrite ==
    \E cmd \in {"create", "update"}, fp \in StoreNames, c \in StoreContents,
       sid \in StoreSessions :
        StoreAnswer(MemRequest(cmd, fp, c, sid))

StoreRead ==
    \E fp \in StoreNames, sid \in StoreSessions : StoreAnswer(MemRequest("read", fp, "", sid))

StoreDelete ==
    \E fp \in StoreNames, sid \in StoreSessions : StoreAnswer(MemRequest("delete", fp, "", sid))

StoreList ==
    \E sid \in StoreSessions : StoreAnswer(MemRequest("list", << >>, "", sid))

StoreNext == StoreWrite \/ StoreRead \/ StoreDelete \/ StoreList

SpecStore == StoreInit /\ [][StoreNext]_vars

\* what a read of name under session sid answers in the store fs
ReadAnswer(fs, name, sid) ==
    [kind |-> MemRead(fs, name, sid).result.kind, text |-> MemRead(fs, name, sid).result.text]

\* the step is a create, update or delete of the memory name under sid
WritesMemory(r, name, sid) ==
    /\ r.command \in {"create", "update", "delete"}
    /\ r.file_path = name
    /\ r.session_id = sid

\* C37: for any memory name and session_id: after memory_tool create or
\* update with content c, a read of the same name under the same session_id
\* returns exactly c until the next create, update or delete of it; a memory
\* stored under one session_id is not returned or listed under a different
\* session_id.
MemoriesAreKeptPerSession ==
    [][memfs'.n # memfs.n =>
         /\ (arg'.command \in {"create", "update"} /\ result'.kind = "saved") =>
                ReadAnswer(memfs', arg'.file_path, arg'.session_id)
                    = [kind |-> "content", text |-> arg'.content]
         /\ \A name \in StoreNames, sid \in StoreSessions :
                (~WritesMemory(arg', name, sid)
                 /\ ReadAnswer(memfs, name, sid).kind = "content") =>
                    ReadAnswer(memfs', name, sid) = ReadAnswer(memfs, name, sid)
         /\ \A sid \in StoreSessions \ {arg'.session_id} :
                arg'.command \in {"create", "update"} =>
                    /\ ReadAnswer(memfs', arg'.file_path, sid).kind = "content" =>
                           ReadAnswer(memfs', arg'.file_path, sid)
                               = ReadAnswer(memfs, arg'.file_path, sid)
                    /\ MemList(memfs', sid).result.text
                           \subseteq MemList(memfs, sid).result.text]_vars

\* the memory named by the request does not exist when the call arrives
NamesMissingMemory(r) ==
    ReadAnswer(memfs, r.file_path, r.session_id).kind = "not_found"

\* C38: memory_tool read, update or delete of a name that does not exist
\* returns an error response (_meta.error = true, kind not_found) and
\* creates no file; update never creates a memory that did not exist.
MissingMemoryIsNotFound ==
    [][(/\ memfs'.n # memfs.n
        /\ arg'.command \in {"read", "update", "delete"}
        /\ NamesMissingMemory(arg')) =>
           /\ MemoryToolMeta(result').error
           /\ MemoryToolMeta(result').kind = "not_found"
           /\ memfs'.files = memfs.files]_vars

-----------------------------------------------------------------------------
(* SpecTracker: EntityTracker.record_turn called turn after turn.  Texts    *)
(* and names are sequences of characters; result holds the tracker's       *)
(* mentions (in recording order) and its session_entities, arg the call.   *)

MaxRecords == 2

\* str.lower on the characters of the model
LowerChar(c) == IF c = "U" THEN "u" ELSE c

StrLower(s) == [i \in DOMAIN s |-> LowerChar(s[i])]

NameUs == <<"U", "s">>
NameId == <<"i", "d">>

\* code_index dicts of the tracker: entries [key, name] under functions and classes
TrackerIndexes ==
    { [functions |-> <<[key |-> "m.id", name |-> NameId]>>,
       classes |-> <<[key |-> "m.Us", name |-> NameUs]>>],
      [functions |-> <<[key |-> "m.id", name |-> NameId], [key |-> "n.id", name |-> NameId]>>,
       classes |-> << >>] }

TrackerTexts == { <<"u", "s">>, <<"U", "s">>, <<"i", "d">>, <<"a">> }
TrackerSessions == {"s1", "s2"}
TrackerTurnIds == {1, 2}

\* the names of the entries of an index dict
NamesIn(entries) == {entries[i].name : i \in DOMAIN entries}

\* extract_entities_from_text before list(set(...)): the names whose
\* lowercase form is a substring of the lowercased text
ExtractedNames(index, text) ==
    {n \in NamesIn(index.functions) \cup NamesIn(index.classes) :
         OccursIn(StrLower(n), StrLower(text))}

\* the orders list(set(...)) can give a set of names
OrdersOf(S) == {s \in [1..Cardinality(S) -> S] : \A n \in S : \E i \in DOMAIN s : s[i] = n}

\* record_mention
RecordMention(tr, name, sid, turn_id) ==
    [tr EXCEPT !.mentions = Append(@, [entity_name |-> name, session_id |-> sid,
                                       turn_id |-> turn_id]),
               !.session_entities = Put(@, sid, IF sid \in DOMAIN @ THEN @[sid] \cup {name}
                                                ELSE {name})]

\* the loop of record_turn over the entities found, in the order given
RECURSIVE RecordEach(_, _, _, _)
RecordEach(tr, entities, sid, turn_id) ==
    IF entities = << >> THEN tr
    ELSE RecordEach(RecordMention(tr, Head(entities), sid, turn_id), Tail(entities),
                    sid, turn_id)

\* f"{query} {response}"
FullText(query, response) == query \o <<" ">> \o response

TrackerInit ==
    /\ sess = NewTrimming("s1", 1, "general", 0)
    /\ hist = << >>
    /\ now = 1
    /\ active = << >>
    /\ logs = << >>
    /\ meta = << >>
    /\ auto_save = TRUE
    /\ calls = << >>
    /\ ret = Ret("none", "s1", "none")
    /\ ParIdle
    /\ SrvIdle
    /\ JepaIdle
    /\ memfs = << >>
    /\ arg \in {[index |-> ix, session_id |-> "s1", turn_id |-> 0, query |-> << >>,
                 response |-> << >>] : ix \in TrackerIndexes}
    /\ result = [mentions |-> << >>, session_entities |-> << >>, n |-> 0]

TrackerRecordTurn ==
    /\ result.n < MaxRecords
    /\ \E sid \in TrackerSessions, tid \in TrackerTurnIds, q \in TrackerTexts,
          r \in TrackerTexts :
          \E order \in OrdersOf(ExtractedNames(arg.index, FullText(q, r))) :
              /\ arg' = [arg EXCEPT !.session_id = sid, !.turn_id = tid, !.query = q,
                                    !.response = r]
              /\ result' = [RecordEach(result, order, sid, tid) EXCEPT !.n = @ + 1]
    /\ UNCHANGED <<memfs, now, policyVars, mgrVars, parVars, srvVars, jepaVars>>

TrackerNext == TrackerRecordTurn

SpecTracker == TrackerInit /\ [][TrackerNext]_vars

\* the known entity names that occur in the query or the response
OccurringNames(index, query, response) ==
    {n \in NamesIn(index.functions) \cup NamesIn(index.classes) :
         OccursIn(n, query) \/ OccursIn(n, response)}

\* C39: record_turn stores exactly one EntityMention, carrying the given
\* session_id and turn_id, for each distinct known entity name that occurs
\* in the query or the response, and none for any other name; after any
\* sequence of record_turn calls, a name is in a session's entity set if and
\* only if some stored mention has that name and that session_id.
RecordTurnStoresOccurringNames ==
    [][result'.n # result.n =>
         LET old == result.mentions
             all == result'.mentions
             new == SubSeq(all, Len(old) + 1, Len(all))
             occurring == OccurringNames(arg'.index, arg'.query, arg'.response)
         IN /\ SubSeq(all, 1, Len(old)) = old
            /\ \A n \in occurring :
                   Cardinality({i \in DOMAIN new : new[i].entity_name = n}) = 1
            /\ \A i \in DOMAIN new :
                   /\ new[i].entity_name \in occurring
                   /\ new[i].session_id = arg'.session_id
                   /\ new[i].turn_id = arg'.turn_id
            /\ \A sid \in TrackerSessions, n \in {NameUs, NameId} :
                   (sid \in DOMAIN result'.session_entities
                    /\ n \in result'.session_entities[sid])
                   <=> \E i \in DOMAIN all :
                           all[i].entity_name = n /\ all[i].session_id = sid]_vars

====
